---- MODULE Spec2Model ----
(***************************************************************************)
(* Model of the koala admin dashboard: the test-mode session of            *)
(* TestModePage, the set-boss operation of NodesPage and the question      *)
(* dialogs of QuestionsPage, together with the content registry and the    *)
(* grading function they use.                                              *)
(*                                                                         *)
(* Conventions.  A JavaScript string is a sequence of one-character        *)
(* strings.  A value of type `unknown' (the current answer) is a record    *)
(* whose single field names its JavaScript type: [null |-> TRUE],          *)
(* [str |-> s], [num |-> n], [arr |-> seq].  A nullable object is a        *)
(* sequence of length 0 or 1.  NaN is the number -1 (no source of          *)
(* negative numbers is modelled).                                          *)
(***************************************************************************)
EXTENDS Integers, Sequences, FiniteSets, TLC

VARIABLES
    \* ---- TestModePage (src/unnamed/part_001) ----
    route,            \* useParams(): [nodeId, bossId], <<>> when the parameter is absent
    srvQuestions,     \* what GET /questions/node/{nodeIdNum} holds
    srvNode,          \* the tested node as stored by the server
    tpc,              \* position of the mount effect: "mount", "fetching", "ready"
    node,             \* useState<PassageNode | null>
    questions,        \* useState<Question[]>
    isLoading,
    currentIndex,
    results,
    isComplete,
    currentAnswer,
    showFeedback,
    isCurrentCorrect,
    child,            \* the question component instance mounted under QuestionComponent
    timers,           \* the setTimeout callbacks of handleSwipe not yet run, oldest first
    \* ---- NodesPage (src/src/components/ui/toast.tsx) ----
    editors,          \* the browser sessions that have the passage's NodesPage open
    srvPassage,       \* server: the nodes of the passage
    npage,            \* per session: the page state and the position inside handleSetBoss
    errorLog,         \* the last console.error of handleSetBoss: which update failed
    \* ---- QuestionsPage (src/src/api/passages.ts) ----
    subject,          \* searchParams.get('subject')
    qsrv,             \* server: the questions of the node, in order
    qpage,            \* the page state: dialog, batch items, edit type and content
    \* ---- VillagesPage (src/src/api/questions.ts) ----
    vsrv,             \* server: the villages of the selected subject and the ids given
    vpage             \* the page state: list, dialogs, form cost, calls in flight

testVars == <<route, srvQuestions, srvNode, tpc, node, questions, isLoading,
              currentIndex, results, isComplete, currentAnswer, showFeedback,
              isCurrentCorrect, child, timers>>
bossVars == <<editors, srvPassage, npage, errorLog>>
authVars == <<subject, qsrv, qpage>>
buildVars == <<vsrv, vpage>>
vars == <<testVars, bossVars, authVars, buildVars>>

----------------------------------------------------------------------------
(* Bounds *)

MaxQuestions == 3
NumNodes == 3
MaxBatch == 2
MaxStored == 3
MaxCalls == 2
MaxNodes == 2
MaxTimers == 2

----------------------------------------------------------------------------
(* JavaScript helpers *)

NaN == -1

Null == [null |-> TRUE]

Str(s) == [str |-> s]

Num(n) == [num |-> n]

Arr(a) == [arr |-> a]

\* String.prototype.trimStart on blanks
RECURSIVE TrimStart(_)
TrimStart(s) == IF s # <<>> /\ Head(s) = " " THEN TrimStart(Tail(s)) ELSE s

RECURSIVE ParseDigits(_, _, _)
ParseDigits(s, acc, seen) ==
    LET digits == <<"0", "1", "2", "3", "4", "5", "6", "7", "8", "9">>
        value(c) == (CHOOSE i \in DOMAIN digits : digits[i] = c) - 1
    IN IF s # <<>> /\ (\E i \in DOMAIN digits : digits[i] = Head(s))
       THEN ParseDigits(Tail(s), 10 * acc + value(Head(s)), TRUE)
       ELSE IF seen THEN acc ELSE NaN

\* parseInt(s, 10) on unsigned input: leading blanks are skipped, the longest
\* prefix of decimal digits is converted, NaN when there is none.
parseInt(s) == ParseDigits(TrimStart(s), 0, FALSE)

\* ToBoolean of a number
Truthy(n) == n # 0 /\ n # NaN

\* Math.floor in place of Math.round
MathRoundDown(num, den) == num \div den

\* Math.round(num / den) for num >= 0, den > 0: halves round up
MathRound(num, den) == (2 * num + den) \div (2 * den)

\* Array.prototype.find, given the indices whose element satisfies the
\* predicate: the first such element, as a nullable
Find(s, matching) ==
    IF matching = {} THEN <<>>
    ELSE <<s[CHOOSE i \in matching : \A j \in matching : i <= j]>>

Range(s) == {s[i] : i \in DOMAIN s}

Perms(S) == {p \in [1..Cardinality(S) -> S] : Range(p) = S}

\* { ...value, [field]: v }
Spread(value, field, v) ==
    [f \in (DOMAIN value) \cup {field} |-> IF f = field THEN v ELSE value[f]]

----------------------------------------------------------------------------
(* String operations used by the grading rules *)

toLowerCase(s) ==
    [i \in DOMAIN s |-> CASE s[i] = "A" -> "a" [] s[i] = "B" -> "b" [] OTHER -> s[i]]

RECURSIVE TrimEnd(_)
TrimEnd(s) ==
    IF s # <<>> /\ s[Len(s)] = " " THEN TrimEnd(SubSeq(s, 1, Len(s) - 1)) ELSE s

trim(s) == TrimEnd(TrimStart(s))

\* hay.includes(needle)
includes(hay, needle) ==
    \E i \in 0..(Len(hay) - Len(needle)) :
        SubSeq(hay, i + 1, i + Len(needle)) = needle

----------------------------------------------------------------------------
(* ContentSchemaRegistry: getDefaultContent *)

QuestionTypes ==
    {"multiple_choice", "find_error", "strike_out", "ordering", "highlight",
     "swipe_decision", "fill_gap", "matching", "graph_point", "trend_arrow",
     "slider_value"}

QUESTION_TYPES_BY_SUBJECT(s) ==
    CASE s = "english" -> <<"multiple_choice", "find_error", "strike_out", "ordering">>
      [] s = "reading" -> <<"multiple_choice", "highlight", "swipe_decision">>
      [] s = "math"    -> <<"multiple_choice", "fill_gap", "matching", "graph_point", "ordering">>
      [] s = "science" -> <<"multiple_choice", "trend_arrow", "slider_value", "swipe_decision", "graph_point">>

Option(id) == [id |-> id, text |-> <<>>, is_correct |-> FALSE]

Item(id) == [id |-> id, content |-> <<>>]

Pair(id) == [id |-> id, left |-> <<>>, right |-> <<>>]

getDefaultContent(type) ==
    CASE type = "multiple_choice" ->
            [question |-> <<>>,
             options |-> <<Option("A"), Option("B"), Option("C"), Option("D")>>,
             explanation |-> <<>>]
      [] type = "find_error" ->
            [sentence |-> <<>>, error_index |-> 0, correct_word |-> <<>>,
             explanation |-> <<>>]
      [] type = "strike_out" ->
            [sentence |-> <<>>, correct_ids_to_remove |-> <<>>, explanation |-> <<>>]
      [] type = "ordering" ->
            [items |-> <<Item("A"), Item("B"), Item("C")>>,
             correct_order |-> <<"A", "B", "C">>,
             explanation |-> <<>>]
      [] type = "highlight" ->
            [passage |-> <<>>, question |-> <<>>, correct_phrase |-> <<>>,
             explanation |-> <<>>]
      [] type = "swipe_decision" ->
            [content |-> <<>>, correct_swipe |-> "left", explanation |-> <<>>,
             labels |-> [left |-> "Fact", right |-> "Opinion"]]
      [] type = "fill_gap" ->
            [question |-> <<>>, correct_answer |-> <<>>, explanation |-> <<>>]
      [] type = "matching" ->
            [pairs |-> <<Pair("1"), Pair("2"), Pair("3")>>]
      [] type = "graph_point" ->
            [graph_description |-> <<>>, target_x |-> 0, target_y |-> 0,
             radius |-> 20, explanation |-> <<>>]
      [] type = "trend_arrow" ->
            [question |-> <<>>, correct_trend |-> "increase", explanation |-> <<>>]
      [] type = "slider_value" ->
            [image_description |-> <<>>, question |-> <<>>, min_value |-> 0,
             max_value |-> 100, correct_value |-> 50, tolerance |-> 5,
             unit |-> <<>>, explanation |-> <<>>]
      [] OTHER -> <<>>

\* The field set of a type's content interface (src/src/types/index.ts)
ContentFields(type) ==
    CASE type = "multiple_choice" -> {"question", "options", "explanation"}
      [] type = "find_error" -> {"sentence", "error_index", "correct_word", "explanation"}
      [] type = "strike_out" -> {"sentence", "correct_ids_to_remove", "explanation"}
      [] type = "ordering" -> {"items", "correct_order", "explanation"}
      [] type = "highlight" -> {"passage", "question", "correct_phrase", "explanation"}
      [] type = "swipe_decision" -> {"content", "correct_swipe", "explanation", "labels"}
      [] type = "fill_gap" -> {"question", "correct_answer", "explanation"}
      [] type = "matching" -> {"pairs"}
      [] type = "graph_point" ->
            {"graph_description", "target_x", "target_y", "radius", "explanation"}
      [] type = "trend_arrow" -> {"question", "correct_trend", "explanation"}
      [] type = "slider_value" ->
            {"image_description", "question", "min_value", "max_value",
             "correct_value", "tolerance", "unit", "explanation"}
      [] OTHER -> {}

Has(r, f) == f \in DOMAIN r

Abs(x) == IF x < 0 THEN -x ELSE x

----------------------------------------------------------------------------
(* GradingEngine: checkAnswer of TestModePage *)

\* The branches that dereference the answer or a content field throw a
\* TypeError when it is null or undefined.
checkAnswerThrows(question, answer) ==
    LET content == question.content
        type == question.type
    IN CASE type = "highlight" -> ~Has(content, "correct_phrase") \/ ~Has(answer, "str")
         [] type = "swipe_decision" ->
                \/ ~Has(content, "cards")
                \/ (content.cards # <<>> /\ ~Has(answer, "arr"))
         [] type = "fill_gap" -> ~Has(content, "correct_answer") \/ ~Has(answer, "str")
         [] type = "matching" ->
                \/ ~Has(content, "pairs")
                \/ (content.pairs # <<>> /\ ~Has(answer, "map"))
         [] type = "graph_point" -> ~Has(answer, "pt")
         [] OTHER -> FALSE

\* A grade that looks at the recorded mappings only
gradeMatchingRecorded(pairs, matches) ==
    \A leftId \in DOMAIN matches : matches[leftId] = leftId

\* pairs.every(pair => matches.get(pair.id) === pair.id)
gradeMatching(pairs, matches) ==
    \A i \in DOMAIN pairs :
        LET pair == pairs[i]
        IN /\ pair.id \in DOMAIN matches
           /\ matches[pair.id] = pair.id

\* A grade that compares which ids the two arrays hold
gradeOrderingSameIds(correctOrder, answerOrder) ==
    Range(answerOrder) = Range(correctOrder)

\* JSON.stringify(answerOrder) === JSON.stringify(correctOrder); the text of an
\* array of strings is "[", the quoted elements separated by ",", and "]"
gradeOrdering(correctOrder, answerOrder) ==
    LET stringify(a) ==
            <<"[">>
            \o [k \in 1..(IF a = <<>> THEN 0 ELSE 4 * Len(a) - 1) |->
                   CASE (k - 1) % 4 = 1 -> a[((k - 1) \div 4) + 1]
                     [] (k - 1) % 4 = 3 -> ","
                     [] OTHER -> "\""]
            \o <<"]">>
    IN stringify(answerOrder) = stringify(correctOrder)

\* A grade whose band excludes its boundary
gradeSliderValueStrict(correctValue, tolerance, answer) ==
    Abs(answer - correctValue) < tolerance

\* Math.abs((answer as number) - correctValue) <= tolerance; the numbers of the
\* model are integers
gradeSliderValue(correctValue, tolerance, answer) ==
    Abs(answer - correctValue) <= tolerance

checkAnswer(question, answer) ==
    LET content == question.content
        type == question.type
    IN CASE type = "multiple_choice" ->
            LET correctOption ==
                    IF Has(content, "options")
                    THEN Find(content.options, {i \in DOMAIN content.options : content.options[i].is_correct})
                    ELSE <<>>
            IN correctOption # <<>> /\ answer = Str(correctOption[1].id)
         [] type = "find_error" ->
            Has(content, "error_index") /\ answer = Num(content.error_index)
         [] type = "strike_out" ->
            /\ Has(answer, "set")
            /\ Has(content, "correct_ids_to_remove")
            /\ LET correctIds == Range(content.correct_ids_to_remove)
               IN /\ Cardinality(answer.set) = Cardinality(correctIds)
                  /\ \A id \in answer.set : id \in correctIds
         [] type = "ordering" ->
            /\ Has(answer, "arr")
            /\ Has(content, "correct_order")
            /\ gradeOrdering(content.correct_order, answer.arr)
         [] type = "highlight" ->
            LET correctPhrase == toLowerCase(content.correct_phrase)
                answerText == toLowerCase(answer.str)
            IN includes(answerText, correctPhrase) \/ includes(correctPhrase, answerText)
         [] type = "swipe_decision" ->
            \A i \in DOMAIN content.cards :
                /\ i \in DOMAIN answer.arr
                /\ content.cards[i].correct_swipe = answer.arr[i]
         [] type = "fill_gap" ->
            LET correctAnswer == trim(toLowerCase(content.correct_answer))
            IN trim(toLowerCase(answer.str)) = correctAnswer
         [] type = "matching" -> gradeMatching(content.pairs, answer.map)
         [] type = "graph_point" ->
            LET dx == answer.pt.x - content.target_x
                dy == answer.pt.y - content.target_y
            IN /\ content.radius >= 0
               /\ dx * dx + dy * dy <= content.radius * content.radius
         [] type = "trend_arrow" ->
            Has(content, "correct_trend") /\ answer = Str(content.correct_trend)
         [] type = "slider_value" ->
            \* Number(null) is 0
            /\ Has(answer, "num") \/ answer = Null
            /\ gradeSliderValue(content.correct_value, content.tolerance,
                                IF answer = Null THEN 0 ELSE answer.num)
         [] OTHER -> FALSE

----------------------------------------------------------------------------
(* TestModePage: session state machine *)

OrdContent ==
    [items |-> <<Item("A"), Item("B")>>, correct_order |-> <<"B", "A">>,
     explanation |-> <<>>]

\* MatchingForm after removePair(2) on the default
MatContent == [pairs |-> <<Pair("1"), Pair("2")>>]

QuestionListsOf(pool) ==
    UNION {[1..n -> pool] : n \in 0..MaxQuestions}

\* The ids the server gave the questions of the list
WithIds(list) ==
    [i \in DOMAIN list |->
        [id |-> 20 - i, type |-> list[i].type, content |-> list[i].content]]

nodeIdNum ==
    parseInt(IF route.bossId # <<>> THEN route.bossId
             ELSE IF route.nodeId # <<>> THEN route.nodeId ELSE <<"0">>)

\* nodesApi.getNodes(passageId): the nodes of that passage
getNodes(passageId) ==
    IF srvNode.passage_id = passageId THEN <<srvNode>> ELSE <<>>

currentQuestion == questions[currentIndex + 1]

\* The render of TestModePage: which of its four returns is taken
Screen ==
    IF isLoading THEN "Loading"
    ELSE IF Len(questions) = 0 THEN "Empty"
    ELSE IF isComplete THEN "Complete"
    ELSE "InProgress"

finalScore ==
    IF isComplete
    THEN MathRound(Cardinality({i \in DOMAIN results : results[i].isCorrect}) * 100,
                   Len(questions))
    ELSE 0

passed == finalScore >= (IF node # <<>> /\ node[1].pass_score # 0 THEN node[1].pass_score ELSE 70)

\* The fields a question component dereferences while rendering; a missing
\* one makes the render throw, which unmounts the page.
RenderThrows(q) ==
    LET type == q.type
        RenderFields ==
        CASE type = "multiple_choice" -> {"options"}
          [] type = "find_error" -> {"sentence"}
          [] type = "strike_out" -> {"sentence"}
          [] type = "ordering" -> {"items", "correct_order"}
          [] type = "fill_gap" -> {"correct_answer"}
          [] type = "swipe_decision" -> {"cards", "labels"}
          [] type = "matching" -> {"pairs"}
          [] OTHER -> {}
    IN ~(RenderFields \subseteq DOMAIN q.content)

Crashed == Screen = "InProgress" /\ RenderThrows(currentQuestion)

NoChild ==
    [type |-> "none", orderedIds |-> <<>>, draggedIndex |-> <<>>,
     pendingEffect |-> FALSE, selectedLeft |-> <<>>, matches |-> <<>>,
     shuffledRight |-> {}, currentCardIndex |-> 0, answers |-> <<>>]

\* The instances a question component can start as: OrderingQuestion starts
\* from the answer or from a shuffle of the items, and it and
\* SliderValueQuestion have a mount effect; MatchingQuestion starts from the
\* answer or an empty Map and keeps the right column it shuffled at mount
\* (held here as the set of its ids, their order only affects the layout);
\* SwipeDecisionQuestion starts at its first card with the answer or no
\* answers.
NewChild(q, answer) ==
    IF q.type = "ordering"
    THEN {[NoChild EXCEPT !.type = "ordering", !.orderedIds = o,
                          !.pendingEffect = TRUE] :
             o \in IF answer # Null
                   THEN {answer.arr}
                   ELSE Perms({q.content.items[i].id : i \in DOMAIN q.content.items})}
    ELSE IF q.type = "matching"
    THEN {[NoChild EXCEPT !.type = "matching",
                          !.matches = IF answer # Null THEN answer.map ELSE <<>>,
                          !.shuffledRight =
                              {q.content.pairs[i].id : i \in DOMAIN q.content.pairs}]}
    ELSE IF q.type = "swipe_decision"
    THEN {[NoChild EXCEPT !.type = "swipe_decision",
                          !.answers = IF answer # Null THEN answer.arr ELSE <<>>]}
    ELSE {[NoChild EXCEPT !.type = q.type,
                          !.pendingEffect = q.type = "slider_value"]}

\* The callbacks after a render that kept the question component instance or
\* replaced it: the state setters of an unmounted instance do nothing
Unmounted(kept) ==
    [i \in DOMAIN timers |-> [timers[i] EXCEPT !.mounted = @ /\ kept]]

\* React keeps the instance under QuestionComponent when the next render
\* returns the same component type there, and replaces it otherwise.
Reconcile(loading, qs, idx, complete, answer) ==
    IF loading \/ qs = <<>> \/ complete \/ RenderThrows(qs[idx + 1])
    THEN {NoChild}
    ELSE IF child.type = qs[idx + 1].type
    THEN {child}
    ELSE NewChild(qs[idx + 1], answer)

Interactive ==
    /\ Screen = "InProgress"
    /\ ~Crashed
    /\ ~child.pendingEffect

TestInitFrom(lists) ==
    /\ route \in {[nodeId |-> <<"1">>, bossId |-> <<>>], [nodeId |-> <<>>, bossId |-> <<"0", "2">>], [nodeId |-> <<"0">>, bossId |-> <<>>], [nodeId |-> <<"a">>, bossId |-> <<>>]}
    /\ srvQuestions \in {WithIds(l) : l \in lists}
    /\ srvNode \in [id : {nodeIdNum}, passage_id : {1, 2}, pass_score : {0, 60, 70}]
    /\ (~Truthy(nodeIdNum) =>
            /\ srvQuestions = <<>>
            /\ srvNode.passage_id = 1
            /\ srvNode.pass_score = 70)
    /\ tpc = "mount"
    /\ node = <<>>
    /\ questions = <<>>
    /\ isLoading = TRUE
    /\ currentIndex = 0
    /\ results = <<>>
    /\ isComplete = FALSE
    /\ currentAnswer = Null
    /\ showFeedback = FALSE
    /\ isCurrentCorrect = FALSE
    /\ child = NoChild
    /\ timers = <<>>

TestInit == TestInitFrom(QuestionListsOf({
          [type |-> "multiple_choice",
           content |-> [question |-> <<"a">>,
                        options |-> <<[id |-> "A", text |-> <<"a">>, is_correct |-> FALSE],
                                     [id |-> "B", text |-> <<"b">>, is_correct |-> TRUE]>>,
                        explanation |-> <<>>]],
          [type |-> "ordering", content |-> OrdContent],
          [type |-> "slider_value",
           content |-> [image_description |-> <<>>, question |-> <<"a">>,
                        min_value |-> 0, max_value |-> 3, correct_value |-> 1, tolerance |-> 1, unit |-> <<>>,
                        explanation |-> <<>>]],
          [type |-> "swipe_decision", content |-> getDefaultContent("swipe_decision")]}))

\* useEffect(() => { ...; if (nodeIdNum) fetchData(); }, [nodeIdNum])
MountTestPage ==
    /\ tpc = "mount"
    /\ IF Truthy(nodeIdNum)
       THEN /\ isLoading' = TRUE
            /\ tpc' = "fetching"
       ELSE /\ tpc' = "ready"
            /\ UNCHANGED isLoading
    /\ UNCHANGED <<bossVars, authVars, buildVars, timers, route, srvQuestions, srvNode, node, questions, currentIndex,
                   results, isComplete, currentAnswer, showFeedback,
                   isCurrentCorrect, child>>

\* fetchData after both requests settled; getNodes has its own catch
fetchData(questionsOk, nodesOk) ==
    /\ tpc = "fetching"
    /\ LET nodesData == IF nodesOk THEN getNodes(nodeIdNum) ELSE <<>>
           foundNode == Find(nodesData, {i \in DOMAIN nodesData : nodesData[i].id = nodeIdNum})
       IN IF questionsOk
          THEN /\ questions' = srvQuestions
               /\ node' = IF foundNode # <<>> THEN foundNode ELSE node
          ELSE /\ questions' = <<>>
               /\ UNCHANGED node
    /\ isLoading' = FALSE
    /\ tpc' = "ready"
    /\ child' \in Reconcile(FALSE, questions', currentIndex, isComplete, currentAnswer)
    /\ timers' = Unmounted(child' = child)
    /\ UNCHANGED <<bossVars, authVars, buildVars, route, srvQuestions, srvNode, currentIndex, results, isComplete,
                   currentAnswer, showFeedback, isCurrentCorrect>>

\* The mount effects of OrderingQuestion and SliderValueQuestion
MountEffect ==
    /\ child.pendingEffect
    /\ child' = [child EXCEPT !.pendingEffect = FALSE]
    /\ IF currentAnswer # Null
       THEN UNCHANGED currentAnswer
       ELSE IF child.type = "ordering"
       THEN currentAnswer' = Arr(child.orderedIds)
       ELSE currentAnswer' =
                Num(MathRound(currentQuestion.content.min_value
                                + currentQuestion.content.max_value, 2))
    /\ UNCHANGED <<bossVars, authVars, buildVars, timers, route, srvQuestions, srvNode, tpc, node, questions, isLoading,
                   currentIndex, results, isComplete, showFeedback, isCurrentCorrect>>

\* onAnswerChange as called by the click and change handlers of
\* MultipleChoiceQuestion and SliderValueQuestion
onAnswerChange(answer) ==
    /\ Interactive
    /\ ~showFeedback
    /\ currentAnswer' = answer
    /\ UNCHANGED <<bossVars, authVars, buildVars, timers, route, srvQuestions, srvNode, tpc, node, questions, isLoading,
                   currentIndex, results, isComplete, showFeedback,
                   isCurrentCorrect, child>>

SelectOption ==
    /\ Screen = "InProgress"
    /\ currentQuestion.type = "multiple_choice"
    /\ \E i \in DOMAIN currentQuestion.content.options :
          onAnswerChange(Str(currentQuestion.content.options[i].id))

MoveSlider ==
    /\ Screen = "InProgress"
    /\ currentQuestion.type = "slider_value"
    /\ \E v \in currentQuestion.content.min_value..currentQuestion.content.max_value :
          onAnswerChange(Num(v))

\* GraphPointQuestion.handleClick: Math.round of the click position scaled to
\* 0..10 on both axes
GraphClick(x, y) ==
    /\ Screen = "InProgress"
    /\ currentQuestion.type = "graph_point"
    /\ onAnswerChange([pt |-> [x |-> x, y |-> y]])

\* SwipeDecisionQuestion.handleSwipe: the buttons are rendered while a card is
\* left; the callback holds the answers and the card index of the render
\* that was clicked
handleSwipe(direction) ==
    /\ Interactive
    /\ child.type = "swipe_decision"
    /\ child.currentCardIndex < Len(currentQuestion.content.cards)
    /\ Len(timers) < MaxTimers
    /\ IF showFeedback
       THEN UNCHANGED timers
       ELSE timers' = Append(timers, [answers |-> Append(child.answers, direction),
                                      currentCardIndex |-> child.currentCardIndex + 1,
                                      mounted |-> TRUE])
    /\ UNCHANGED <<bossVars, authVars, buildVars, route, srvQuestions, srvNode, tpc, node,
                   questions, isLoading, currentIndex, results, isComplete,
                   currentAnswer, showFeedback, isCurrentCorrect, child>>

\* The callback of setTimeout(..., 300) in handleSwipe; callbacks of equal
\* delay run in the order they were set
SwipeTimeout ==
    /\ timers # <<>>
    /\ LET timer == Head(timers)
       IN /\ currentAnswer' = Arr(timer.answers)
          /\ child' = IF timer.mounted
                      THEN [child EXCEPT !.answers = timer.answers,
                                         !.currentCardIndex = timer.currentCardIndex]
                      ELSE child
    /\ timers' = Tail(timers)
    /\ UNCHANGED <<bossVars, authVars, buildVars, route, srvQuestions, srvNode, tpc, node,
                   questions, isLoading, currentIndex, results, isComplete,
                   showFeedback, isCurrentCorrect>>

\* OrderingQuestion.handleDragStart
OrderingDragStart(index) ==
    /\ Interactive
    /\ child.type = "ordering"
    /\ index \in 0..(Len(child.orderedIds) - 1)
    /\ IF showFeedback
       THEN UNCHANGED child
       ELSE child' = [child EXCEPT !.draggedIndex = <<index>>]
    /\ UNCHANGED <<bossVars, authVars, buildVars, timers, route, srvQuestions, srvNode, tpc, node, questions, isLoading,
                   currentIndex, results, isComplete, currentAnswer, showFeedback,
                   isCurrentCorrect>>

\* newOrder.splice(from, 1); newOrder.splice(to, 0, removed)
Splice(order, from, to) ==
    LET removed == order[from + 1]
        rest == SubSeq(order, 1, from) \o SubSeq(order, from + 2, Len(order))
    IN SubSeq(rest, 1, to) \o <<removed>> \o SubSeq(rest, to + 1, Len(rest))

\* OrderingQuestion.handleDrop
OrderingDrop(dropIndex) ==
    /\ Interactive
    /\ child.type = "ordering"
    /\ dropIndex \in 0..(Len(child.orderedIds) - 1)
    /\ IF showFeedback \/ child.draggedIndex = <<>>
       THEN UNCHANGED <<child, currentAnswer>>
       ELSE LET newOrder == Splice(child.orderedIds, child.draggedIndex[1], dropIndex)
            IN /\ child' = [child EXCEPT !.orderedIds = newOrder,
                                         !.draggedIndex = <<>>]
               /\ currentAnswer' = Arr(newOrder)
    /\ UNCHANGED <<bossVars, authVars, buildVars, timers, route, srvQuestions, srvNode, tpc, node, questions, isLoading,
                   currentIndex, results, isComplete, showFeedback, isCurrentCorrect>>

\* MatchingQuestion.handleLeftClick; the button of a matched left item is disabled
MatchingLeftClick(id) ==
    /\ Interactive
    /\ child.type = "matching"
    /\ id \in {currentQuestion.content.pairs[i].id : i \in DOMAIN currentQuestion.content.pairs}
    /\ ~showFeedback
    /\ id \notin DOMAIN child.matches
    /\ child' = [child EXCEPT !.selectedLeft = <<id>>]
    /\ UNCHANGED <<bossVars, authVars, buildVars, timers, route, srvQuestions, srvNode, tpc, node, questions, isLoading,
                   currentIndex, results, isComplete, currentAnswer, showFeedback,
                   isCurrentCorrect>>

\* MatchingQuestion.handleRightClick; the button of a right item that is the
\* value of a match is disabled
MatchingRightClick(rightId) ==
    /\ Interactive
    /\ child.type = "matching"
    /\ rightId \in child.shuffledRight
    /\ ~showFeedback
    /\ rightId \notin Range(child.matches)
    /\ IF child.selectedLeft = <<>>
       THEN UNCHANGED <<child, currentAnswer>>
       ELSE LET newMatches == Spread(child.matches, child.selectedLeft[1], rightId)
            IN /\ child' = [child EXCEPT !.matches = newMatches, !.selectedLeft = <<>>]
               /\ currentAnswer' = [map |-> newMatches]
    /\ UNCHANGED <<bossVars, authVars, buildVars, timers, route, srvQuestions, srvNode, tpc, node, questions, isLoading,
                   currentIndex, results, isComplete, showFeedback, isCurrentCorrect>>

\* handleSubmitAnswer without its first line, the null check
handleSubmitAnswerNoGuard ==
    /\ Interactive
    /\ ~showFeedback
    /\ isCurrentCorrect' = checkAnswer(currentQuestion, currentAnswer)
    /\ showFeedback' = TRUE
    /\ UNCHANGED <<bossVars, authVars, buildVars, timers, route, srvQuestions, srvNode, tpc, node,
                   questions, isLoading, currentIndex, results, isComplete,
                   currentAnswer, child>>

handleSubmitAnswer ==
    /\ Interactive
    /\ ~showFeedback
    /\ IF currentAnswer = Null \/ checkAnswerThrows(currentQuestion, currentAnswer)
       THEN UNCHANGED <<isCurrentCorrect, showFeedback>>
       ELSE /\ isCurrentCorrect' = checkAnswer(currentQuestion, currentAnswer)
            /\ showFeedback' = TRUE
    /\ UNCHANGED <<bossVars, authVars, buildVars, timers, route, srvQuestions, srvNode, tpc, node, questions, isLoading,
                   currentIndex, results, isComplete, currentAnswer, child>>

\* handleNextQuestion that moves on without clearing the answer and the feedback
handleNextQuestionKeepAnswer ==
    /\ Interactive
    /\ showFeedback
    /\ results' = Append(results, [questionId |-> currentQuestion.id,
                                   isCorrect |-> isCurrentCorrect,
                                   userAnswer |-> currentAnswer])
    /\ IF currentIndex < Len(questions) - 1
       THEN /\ currentIndex' = currentIndex + 1
            /\ UNCHANGED <<isComplete, currentAnswer, showFeedback>>
       ELSE /\ isComplete' = TRUE
            /\ UNCHANGED <<currentIndex, currentAnswer, showFeedback>>
    /\ child' \in Reconcile(isLoading, questions, currentIndex', isComplete',
                            currentAnswer')
    /\ timers' = Unmounted(child' = child)
    /\ UNCHANGED <<bossVars, authVars, buildVars, route, srvQuestions, srvNode, tpc, node,
                   questions, isLoading, isCurrentCorrect>>

handleNextQuestion ==
    /\ Interactive
    /\ showFeedback
    /\ results' = Append(results, [questionId |-> currentQuestion.id,
                                   isCorrect |-> isCurrentCorrect,
                                   userAnswer |-> currentAnswer])
    /\ IF currentIndex < Len(questions) - 1
       THEN /\ currentIndex' = currentIndex + 1
            /\ currentAnswer' = Null
            /\ showFeedback' = FALSE
            /\ UNCHANGED isComplete
       ELSE /\ isComplete' = TRUE
            /\ UNCHANGED <<currentIndex, currentAnswer, showFeedback>>
    /\ child' \in Reconcile(isLoading, questions, currentIndex', isComplete',
                            currentAnswer')
    /\ timers' = Unmounted(child' = child)
    /\ UNCHANGED <<bossVars, authVars, buildVars, route, srvQuestions, srvNode, tpc, node, questions, isLoading,
                   isCurrentCorrect>>

\* handleRestart without setResults([])
handleRestartKeepResults ==
    /\ Screen = "Complete"
    /\ currentIndex' = 0
    /\ currentAnswer' = Null
    /\ showFeedback' = FALSE
    /\ isComplete' = FALSE
    /\ child' \in Reconcile(isLoading, questions, 0, FALSE, Null)
    /\ timers' = Unmounted(child' = child)
    /\ UNCHANGED <<bossVars, authVars, buildVars, route, srvQuestions, srvNode, tpc, node,
                   questions, isLoading, isCurrentCorrect, results>>

handleRestart ==
    /\ Screen = "Complete"
    /\ currentIndex' = 0
    /\ results' = <<>>
    /\ currentAnswer' = Null
    /\ showFeedback' = FALSE
    /\ isComplete' = FALSE
    /\ child' \in Reconcile(isLoading, questions, 0, FALSE, Null)
    /\ timers' = Unmounted(child' = child)
    /\ UNCHANGED <<bossVars, authVars, buildVars, route, srvQuestions, srvNode, tpc, node, questions, isLoading,
                   isCurrentCorrect>>

TestNext ==
    \/ MountTestPage
    \/ \E questionsOk \in BOOLEAN, nodesOk \in BOOLEAN : fetchData(questionsOk, nodesOk)
    \/ MountEffect
    \/ SelectOption
    \/ MoveSlider
    \/ \E index \in 0..(Len(child.orderedIds) - 1) : OrderingDragStart(index)
    \/ \E dropIndex \in 0..(Len(child.orderedIds) - 1) : OrderingDrop(dropIndex)
    \/ handleSubmitAnswer
    \/ handleNextQuestion
    \/ handleRestart

\* A session over questions whose components hold state of their own
LocalStateInit ==
    /\ TestInitFrom(QuestionListsOf({
          [type |-> "ordering", content |-> OrdContent],
          [type |-> "ordering",
           content |-> [items |-> <<Item("B"), Item("C")>>,
                        correct_order |-> <<"B", "C">>,
                        explanation |-> <<>>]],
          [type |-> "matching", content |-> MatContent]}))
    /\ route = [nodeId |-> <<"1">>, bossId |-> <<>>]
    /\ srvNode.passage_id = 1
    /\ srvNode.pass_score = 70

LocalStateNext ==
    \/ MountTestPage
    \/ \E questionsOk \in BOOLEAN, nodesOk \in BOOLEAN : fetchData(questionsOk, nodesOk)
    \/ MountEffect
    \/ \E index \in 0..(Len(child.orderedIds) - 1) : OrderingDragStart(index)
    \/ \E dropIndex \in 0..(Len(child.orderedIds) - 1) : OrderingDrop(dropIndex)
    \/ \E id \in {"1", "2", "3"} : MatchingLeftClick(id)
    \/ \E rightId \in {"1", "2", "3"} : MatchingRightClick(rightId)
    \/ handleSubmitAnswer
    \/ handleNextQuestion
    \/ handleRestart

\* A session over one slider_value or graph_point question
BandsNext ==
    \/ MountTestPage
    \/ \E questionsOk \in BOOLEAN, nodesOk \in BOOLEAN : fetchData(questionsOk, nodesOk)
    \/ MountEffect
    \/ MoveSlider
    \/ \E x \in 0..10, y \in 0..10 : GraphClick(x, y)
    \/ handleSubmitAnswer
    \/ handleNextQuestion
    \/ handleRestart

\* A session that starts with a swipe_decision question of two cards
SwipeNext ==
    \/ MountTestPage
    \/ \E questionsOk \in BOOLEAN, nodesOk \in BOOLEAN : fetchData(questionsOk, nodesOk)
    \/ \E direction \in {"left", "right"} : handleSwipe(direction)
    \/ SwipeTimeout
    \/ SelectOption
    \/ handleSubmitAnswer
    \/ handleNextQuestion
    \/ handleRestart

----------------------------------------------------------------------------
(* Properties of the test session *)

\* MatchingQuestion.checkCorrect: the recorded mappings whose right id is the
\* left id
checkCorrect(matches) ==
    Cardinality({leftId \in DOMAIN matches : leftId = matches[leftId]})

\* checkAnswer and checkCorrect applied to one matching question and one
\* recorded Map, any Map from some pair ids to pair ids: the page shows the
\* question with that Map as its answer
GradeInit ==
    /\ route = [nodeId |-> <<"1">>, bossId |-> <<>>]
    /\ \E content \in {getDefaultContent("matching"), MatContent} :
          /\ srvQuestions = WithIds(<<[type |-> "matching", content |-> content]>>)
          /\ \E m \in LET ids == {content.pairs[i].id : i \in DOMAIN content.pairs}
                       IN UNION {[L -> ids] : L \in SUBSET ids} \ {<<>>} :
                /\ currentAnswer = [map |-> m]
                /\ child = [NoChild EXCEPT !.type = "matching", !.matches = m,
                                           !.shuffledRight = DOMAIN m \cup Range(m)]
    /\ srvNode = [id |-> 1, passage_id |-> 1, pass_score |-> 70]
    /\ tpc = "ready"
    /\ node = <<srvNode>>
    /\ questions = srvQuestions
    /\ isLoading = FALSE
    /\ currentIndex = 0
    /\ results = <<>>
    /\ isComplete = FALSE
    /\ showFeedback = FALSE
    /\ isCurrentCorrect = FALSE
    /\ timers = <<>>

GradeNext ==
    \/ handleSubmitAnswer
    \/ handleNextQuestion
    \/ handleRestart

\* C1: a session advances only while feedback is shown; the step appends
\* exactly one entry {questionId, isCorrect, userAnswer} for the current
\* question; on the last question it completes the session, otherwise the
\* index grows by one and the answer and the feedback are cleared.
C1_AdvanceOnlyAfterFeedback ==
    [][(\/ results' # results /\ results' # <<>>
        \/ currentIndex' > currentIndex
        \/ ~isComplete /\ isComplete') =>
        /\ Screen = "InProgress"
        /\ showFeedback
        /\ results' = Append(results, [questionId |-> questions[currentIndex + 1].id,
                                       isCorrect |-> isCurrentCorrect,
                                       userAnswer |-> currentAnswer])
        /\ IF currentIndex = Len(questions) - 1
           THEN /\ Screen' = "Complete"
                /\ currentIndex' = currentIndex
           ELSE /\ currentIndex' = currentIndex + 1
                /\ currentAnswer' = Null
                /\ ~showFeedback'
                /\ Screen' = "InProgress"]_vars

C1_Witness ==
    /\ Screen = "InProgress"
    /\ currentIndex = 1
    /\ Len(results) = 1
    /\ results[1].questionId = questions[1].id
    /\ currentAnswer = Null
    /\ ~showFeedback

\* C2: with no feedback shown, nothing is graded while the answer is null;
\* feedback appears only by grading a non-null answer, which stores
\* checkAnswer's verdict for the current question and leaves the index, the
\* answer and the results as they are.
C2_SubmitGradesNonNullAnswer ==
    [][/\ (Screen = "InProgress" /\ ~showFeedback /\ currentAnswer = Null) =>
              /\ ~showFeedback'
              /\ isCurrentCorrect' = isCurrentCorrect
              /\ currentIndex' = currentIndex
              /\ results' = results
       /\ (~showFeedback /\ showFeedback') =>
              /\ Screen = "InProgress"
              /\ currentAnswer # Null
              /\ isCurrentCorrect' = checkAnswer(questions[currentIndex + 1], currentAnswer)
              /\ currentAnswer' = currentAnswer
              /\ currentIndex' = currentIndex
              /\ results' = results]_vars

C2_Witness ==
    /\ Screen = "InProgress"
    /\ showFeedback
    /\ isCurrentCorrect
    /\ currentAnswer # Null
    /\ results = <<>>

\* C3: in Complete, passed is true iff finalScore reaches the pass_score of
\* the node the page loaded, 0 included.
C3_PassedIffConfiguredScore ==
    (Screen = "Complete" /\ node # <<>>) =>
        (passed <=> finalScore >= node[1].pass_score)

C5_RestartClearsRun ==
    /\ [][/\ (isComplete /\ ~isComplete') =>
                 /\ results' = <<>>
                 /\ currentAnswer' = Null
                 /\ ~showFeedback'
                 /\ currentIndex' = 0
                 /\ Screen' = "InProgress"
          /\ (results # <<>> /\ results' = <<>>) => Screen = "Complete"]_vars
    /\ [](Len(results) <= Len(questions))

\* isCurrentCorrect is the one cell a restart leaves alone: with no results
\* and no feedback it is true only after a restart.
C5_Witness ==
    /\ Screen = "InProgress"
    /\ currentIndex = 0
    /\ results = <<>>
    /\ currentAnswer = Null
    /\ ~showFeedback
    /\ isCurrentCorrect

\* C6: once the load has settled with no questions for the routed node, the
\* page shows the Empty screen and not the Loading screen.
C6_NoQuestionsEndsInEmpty ==
    (tpc = "ready" /\ questions = <<>>) => Screen = "Empty"

\* C11: whenever the displayed question changes (first display, advance,
\* restart), the question component starts from its initial state for the
\* new question: a fresh arrangement with no drag in progress, no recorded
\* match and no selected item, the right column of the new question, and its
\* mount effect still to run.
C11_DisplayedQuestionStartsFresh ==
    [][(/\ Screen' = "InProgress"
        /\ ~Crashed'
        /\ (Screen # "InProgress" \/ Crashed \/ currentIndex' # currentIndex))
       => child' \in NewChild(questions'[currentIndex' + 1], currentAnswer')]_vars

MatchingFeedback ==
    /\ Screen = "InProgress"
    /\ currentQuestion.type = "matching"
    /\ showFeedback

----------------------------------------------------------------------------
(* NodesPage: the node list of one passage and its handlers *)

NodeIds == 1..NumNodes

\* data.sort((a, b) => a.order_index - b.order_index)
SortByOrder(S) ==
    CHOOSE seq \in [1..Cardinality(S) -> S] :
        /\ Range(seq) = S
        /\ \A i, j \in DOMAIN seq : i < j => seq[i].order_index <= seq[j].order_index

\* PATCH /nodes/{nodeId} with the fields handleSetBoss sends
updateNode(nodeId, data) ==
    {IF n.id = nodeId
     THEN [n EXCEPT !.order_index = data.order_index, !.is_boss = data.is_boss]
     ELSE n : n \in srvPassage}

\* POST /nodes/passage/{passageId}: the server gives the node the next id
createNode(orderIndex) ==
    LET ids == {0} \cup {n.id : n \in srvPassage}
        id == 1 + (CHOOSE m \in ids : \A n \in ids : n <= m)
    IN srvPassage \cup {[id |-> id, order_index |-> orderIndex, is_boss |-> FALSE]}

\* DELETE /nodes/{nodeId}
deleteNode(nodeId) == {n \in srvPassage : n.id # nodeId}

\* PATCH /nodes/order/{passageId}: the node goes to position orderIndex and the
\* backend shifts the others
reorderNode(nodeId, orderIndex) ==
    LET others == SortByOrder({n \in srvPassage : n.id # nodeId})
        position(n) == CHOOSE i \in DOMAIN others : others[i] = n
    IN {IF n.id = nodeId
        THEN [n EXCEPT !.order_index = orderIndex]
        ELSE [n EXCEPT !.order_index =
                  IF position(n) < orderIndex THEN position(n) ELSE position(n) + 1]
        : n \in srvPassage}

Bosses == {n.id : n \in {m \in srvPassage : m.is_boss}}

\* One run of an async function of the page: the handler it belongs to, the
\* request it is awaiting and the values it captured before its first await
NewCall(op, at, node_, currentBoss, orderIndex) ==
    [op |-> op, at |-> at, node |-> node_, currentBoss |-> currentBoss,
     orderIndex |-> orderIndex]

\* The runs of session e that are awaiting request `at`
CallsAt(e, at) == {k \in DOMAIN npage[e].calls : npage[e].calls[k].at = at}

\* The runs without run k, which has returned
DropCall(calls, k) == SubSeq(calls, 1, k - 1) \o SubSeq(calls, k + 1, Len(calls))

NewNodesPage ==
    [pc |-> "mount", nodes |-> <<>>, isLoading |-> TRUE, isSubmitting |-> FALSE,
     dialogOpen |-> FALSE, deleteDialogOpen |-> FALSE, editingNode |-> <<>>,
     deletingNode |-> <<>>, draggedItem |-> <<>>, calls |-> <<>>]

BossInit ==
    /\ srvPassage \in
          {{[id |-> i, order_index |-> NumNodes + 1 - i, is_boss |-> i = b] : i \in NodeIds} :
              b \in {0} \cup NodeIds}
    /\ npage = [e \in editors |-> NewNodesPage]
    /\ errorLog = <<>>

\* A passage whose first node is the boss and that has room for one more node
NodesInit ==
    /\ srvPassage = {[id |-> i, order_index |-> i, is_boss |-> i = 1] : i \in 1..(MaxNodes - 1)}
    /\ npage = [e \in editors |-> NewNodesPage]
    /\ errorLog = <<>>

\* useEffect(() => { if (passageIdNum) fetchNodes(); }, [passageIdNum])
MountNodesPage(e) ==
    /\ npage[e].pc = "mount"
    /\ npage' = [npage EXCEPT
                    ![e].pc = "live",
                    ![e].isLoading = TRUE,
                    ![e].calls = Append(@, NewCall("mount", "getNodes", <<>>, <<>>, 0))]
    /\ UNCHANGED <<testVars, authVars, buildVars, editors, srvPassage, errorLog>>

\* fetchNodes once getNodes has settled, and what the handler that awaited it
\* does next: fetchNodes catches its own error, so the handler goes on past it
fetchNodes(e, k, ok) ==
    /\ k \in CallsAt(e, "getNodes")
    /\ LET p == npage[e]
           op == p.calls[k].op
           done == [p EXCEPT !.nodes = IF ok THEN SortByOrder(srvPassage) ELSE <<>>,
                             !.isLoading = FALSE,
                             !.calls = DropCall(p.calls, k)]
       IN npage' = [npage EXCEPT ![e] =
              CASE op = "mount" -> done
                [] op = "handleSubmit" ->
                      [done EXCEPT !.dialogOpen = FALSE, !.isSubmitting = FALSE]
                [] op = "handleDelete" ->
                      [done EXCEPT !.deleteDialogOpen = FALSE, !.deletingNode = <<>>,
                                   !.isSubmitting = FALSE]
                [] op = "handleSetBoss" -> [done EXCEPT !.isSubmitting = FALSE]
                [] op = "handleDrop" ->
                      [done EXCEPT !.isSubmitting = FALSE, !.draggedItem = <<>>]]
    /\ UNCHANGED <<testVars, authVars, buildVars, editors, srvPassage, errorLog>>

\* The browser reloads the page between two operations
ReloadNodesPage(e) ==
    /\ npage[e].pc = "live"
    /\ npage[e].calls = <<>>
    /\ npage' = [npage EXCEPT ![e] = NewNodesPage]
    /\ UNCHANGED <<testVars, authVars, buildVars, editors, srvPassage, errorLog>>

\* Neither dialog covers the page and no row is being dragged
RowsReachable(e) ==
    /\ npage[e].pc = "live"
    /\ ~npage[e].isLoading
    /\ ~npage[e].dialogOpen
    /\ ~npage[e].deleteDialogOpen
    /\ npage[e].draggedItem = <<>>

\* A handler runs up to its first await
StartCall(e, call) ==
    /\ Len(npage[e].calls) < MaxCalls
    /\ npage' = [npage EXCEPT ![e].isSubmitting = TRUE, ![e].calls = Append(@, call)]

\* catch (error) { console.error(...) } finally { setIsSubmitting(false) }
CallFailed(e, k) ==
    npage' = [npage EXCEPT ![e].isSubmitting = FALSE,
                           ![e].calls = DropCall(@, k)]

\* The request of run k has succeeded and the handler calls fetchNodes()
CallFetches(e, k) ==
    npage' = [npage EXCEPT ![e].isLoading = TRUE, ![e].calls[k].at = "getNodes"]

\* handleSetBoss up to its first await; the crown button of a row is there
\* when the list is shown and is disabled by isSubmitting || node.is_boss
handleSetBoss(e, i) ==
    /\ RowsReachable(e)
    /\ ~npage[e].isSubmitting
    /\ i \in DOMAIN npage[e].nodes
    /\ LET node_ == npage[e].nodes[i]
           currentBoss == Find(npage[e].nodes, {k \in DOMAIN npage[e].nodes : npage[e].nodes[k].is_boss})
       IN /\ ~node_.is_boss
          /\ StartCall(e, NewCall("handleSetBoss",
                                  IF currentBoss # <<>> THEN "unset" ELSE "set",
                                  <<node_>>, currentBoss, node_.order_index))
    /\ UNCHANGED <<testVars, authVars, buildVars, editors, srvPassage, errorLog>>

\* catch (error) { console.error('Failed to set boss:', error) } finally
\* { setIsSubmitting(false) }
SetBossFailed(e, k, request) ==
    /\ errorLog' = <<request>>
    /\ CallFailed(e, k)
    /\ UNCHANGED srvPassage

\* await nodesApi.updateNode(currentBoss.id, {..., is_boss: false})
UnsetOldBoss(e, k, ok) ==
    /\ k \in CallsAt(e, "unset")
    /\ LET currentBoss == npage[e].calls[k].currentBoss[1]
       IN IF ok
          THEN /\ srvPassage' = updateNode(currentBoss.id,
                                    [currentBoss EXCEPT !.is_boss = FALSE])
               /\ npage' = [npage EXCEPT ![e].calls[k].at = "set"]
               /\ UNCHANGED errorLog
          ELSE SetBossFailed(e, k, [is_boss |-> FALSE])
    /\ UNCHANGED <<testVars, authVars, buildVars, editors>>

\* await nodesApi.updateNode(node.id, {..., is_boss: true}), then fetchNodes()
\* starts
SetNewBoss(e, k, ok) ==
    /\ k \in CallsAt(e, "set")
    /\ LET node_ == npage[e].calls[k].node[1]
       IN IF ok
          THEN /\ srvPassage' = updateNode(node_.id, [node_ EXCEPT !.is_boss = TRUE])
               /\ CallFetches(e, k)
               /\ UNCHANGED errorLog
          ELSE SetBossFailed(e, k, [is_boss |-> TRUE])
    /\ UNCHANGED <<testVars, authVars, buildVars, editors>>

BossNext ==
    \/ \E e \in editors : MountNodesPage(e)
    \/ \E e \in editors, k \in 1..MaxCalls, ok \in BOOLEAN : fetchNodes(e, k, ok)
    \/ \E e \in editors : ReloadNodesPage(e)
    \/ \E e \in editors, i \in 1..NumNodes : handleSetBoss(e, i)
    \/ \E e \in editors, k \in 1..MaxCalls, ok \in BOOLEAN : UnsetOldBoss(e, k, ok)
    \/ \E e \in editors, k \in 1..MaxCalls, ok \in BOOLEAN : SetNewBoss(e, k, ok)

\* openCreateDialog: the Add Node button of the header is always there
openCreateNode(e) ==
    /\ npage[e].pc = "live"
    /\ ~npage[e].dialogOpen /\ ~npage[e].deleteDialogOpen
    /\ npage[e].draggedItem = <<>>
    /\ npage' = [npage EXCEPT ![e].editingNode = <<>>, ![e].dialogOpen = TRUE]
    /\ UNCHANGED <<testVars, authVars, buildVars, editors, srvPassage, errorLog>>

\* openEditDialog(node): the pencil button of a row; of the node the page
\* later reads editingNode.id and editingNode.order_index
openEditNode(e, i) ==
    /\ RowsReachable(e)
    /\ i \in DOMAIN npage[e].nodes
    /\ npage' = [npage EXCEPT
                    ![e].editingNode = <<[id |-> npage[e].nodes[i].id,
                                          order_index |-> npage[e].nodes[i].order_index]>>,
                    ![e].dialogOpen = TRUE]
    /\ UNCHANGED <<testVars, authVars, buildVars, editors, srvPassage, errorLog>>

\* onOpenChange={setDialogOpen} and the Cancel button
closeNodeDialog(e) ==
    /\ npage[e].dialogOpen
    /\ npage' = [npage EXCEPT ![e].dialogOpen = FALSE]
    /\ UNCHANGED <<testVars, authVars, buildVars, editors, srvPassage, errorLog>>

\* handleSubmit up to its first await; the submit button is disabled by
\* isSubmitting
nodeSubmit(e) ==
    /\ npage[e].dialogOpen
    /\ ~npage[e].isSubmitting
    /\ LET p == npage[e]
           orderIndex == IF p.editingNode # <<>> THEN p.editingNode[1].order_index
                         ELSE Len(p.nodes) + 1
       IN StartCall(e, NewCall("handleSubmit",
                               IF p.editingNode # <<>> THEN "updateNode" ELSE "createNode",
                               p.editingNode, <<>>, orderIndex))
    /\ UNCHANGED <<testVars, authVars, buildVars, editors, srvPassage, errorLog>>

\* await nodesApi.createNode(passageIdNum, data)
nodeCreated(e, k, ok) ==
    /\ k \in CallsAt(e, "createNode")
    /\ IF ok
       THEN /\ Cardinality(srvPassage) < MaxNodes
            /\ \A n \in srvPassage : n.id < MaxNodes
            /\ srvPassage' = createNode(npage[e].calls[k].orderIndex)
            /\ CallFetches(e, k)
       ELSE /\ CallFailed(e, k)
            /\ UNCHANGED srvPassage
    /\ UNCHANGED <<testVars, authVars, buildVars, editors, errorLog>>

\* await nodesApi.updateNode(editingNode.id, data)
nodeSaved(e, k, ok) ==
    /\ k \in CallsAt(e, "updateNode")
    /\ LET call == npage[e].calls[k]
       IN IF ok
          THEN /\ call.node[1].id \in {n.id : n \in srvPassage}
               /\ srvPassage' = {IF n.id = call.node[1].id
                                THEN [n EXCEPT !.order_index = call.orderIndex]
                                ELSE n : n \in srvPassage}
               /\ CallFetches(e, k)
          ELSE /\ CallFailed(e, k)
               /\ UNCHANGED srvPassage
    /\ UNCHANGED <<testVars, authVars, buildVars, editors, errorLog>>

\* The trash button of a row: setDeletingNode(node); setDeleteDialogOpen(true);
\* of the node the page later reads deletingNode.id
openDeleteNode(e, i) ==
    /\ RowsReachable(e)
    /\ i \in DOMAIN npage[e].nodes
    /\ npage' = [npage EXCEPT ![e].deletingNode = <<[id |-> npage[e].nodes[i].id]>>,
                              ![e].deleteDialogOpen = TRUE]
    /\ UNCHANGED <<testVars, authVars, buildVars, editors, srvPassage, errorLog>>

\* onOpenChange={setDeleteDialogOpen} and the Cancel button
closeDeleteNode(e) ==
    /\ npage[e].deleteDialogOpen
    /\ npage' = [npage EXCEPT ![e].deleteDialogOpen = FALSE]
    /\ UNCHANGED <<testVars, authVars, buildVars, editors, srvPassage, errorLog>>

\* A Delete button that isSubmitting does not disable
handleDeleteUnguarded(e) ==
    /\ npage[e].deleteDialogOpen
    /\ npage[e].deletingNode # <<>>
    /\ StartCall(e, NewCall("handleDelete", "deleteNode", npage[e].deletingNode, <<>>, 0))
    /\ UNCHANGED <<testVars, authVars, buildVars, editors, srvPassage, errorLog>>

\* handleDelete up to its first await; the Delete button is disabled by
\* isSubmitting
handleDelete(e) ==
    /\ npage[e].deleteDialogOpen
    /\ ~npage[e].isSubmitting
    /\ npage[e].deletingNode # <<>>
    /\ StartCall(e, NewCall("handleDelete", "deleteNode", npage[e].deletingNode, <<>>, 0))
    /\ UNCHANGED <<testVars, authVars, buildVars, editors, srvPassage, errorLog>>

\* await nodesApi.deleteNode(deletingNode.id)
nodeDeleted(e, k, ok) ==
    /\ k \in CallsAt(e, "deleteNode")
    /\ LET call == npage[e].calls[k]
       IN IF ok
          THEN /\ call.node[1].id \in {n.id : n \in srvPassage}
               /\ srvPassage' = deleteNode(call.node[1].id)
               /\ CallFetches(e, k)
          ELSE /\ CallFailed(e, k)
               /\ UNCHANGED srvPassage
    /\ UNCHANGED <<testVars, authVars, buildVars, editors, errorLog>>

\* handleDragStart: a row is draggable={!isSubmitting}; of the node the page
\* later reads draggedItem.id
handleDragStart(e, i) ==
    /\ RowsReachable(e)
    /\ ~npage[e].isSubmitting
    /\ i \in DOMAIN npage[e].nodes
    /\ npage' = [npage EXCEPT ![e].draggedItem = <<[id |-> npage[e].nodes[i].id]>>]
    /\ UNCHANGED <<testVars, authVars, buildVars, editors, srvPassage, errorLog>>

\* handleDragEnd of a drag that ends without a drop on a row
handleDragEnd(e) ==
    /\ npage[e].draggedItem # <<>>
    /\ npage' = [npage EXCEPT ![e].draggedItem = <<>>]
    /\ UNCHANGED <<testVars, authVars, buildVars, editors, srvPassage, errorLog>>

\* handleDrop up to its first await, and the dragend event the browser sends
\* to the dragged row right after the drop event
handleDrop(e, dropIndex) ==
    /\ npage[e].pc = "live"
    /\ ~npage[e].isLoading
    /\ dropIndex + 1 \in DOMAIN npage[e].nodes
    /\ npage[e].draggedItem # <<>>
    /\ LET p == npage[e]
           draggedItem == p.draggedItem[1]
           \* nodes.findIndex(n => n.id === draggedItem.id)
           found == {k \in DOMAIN p.nodes : p.nodes[k].id = draggedItem.id}
           dragIndex == IF found = {} THEN -1
                        ELSE (CHOOSE k \in found : \A j \in found : k <= j) - 1
       IN IF dragIndex = dropIndex
          THEN npage' = [npage EXCEPT ![e].draggedItem = <<>>]
          ELSE /\ Len(p.calls) < MaxCalls
               /\ npage' = [npage EXCEPT
                     ![e].isSubmitting = TRUE,
                     ![e].draggedItem = <<>>,
                     ![e].calls = Append(@, NewCall("handleDrop", "reorderNode",
                                                    <<draggedItem>>, <<>>, dropIndex + 1))]
    /\ UNCHANGED <<testVars, authVars, buildVars, editors, srvPassage, errorLog>>

\* await nodesApi.reorderNode(passageIdNum, draggedItem.id, dropIndex + 1)
nodeReordered(e, k, ok) ==
    /\ k \in CallsAt(e, "reorderNode")
    /\ LET call == npage[e].calls[k]
       IN IF ok
          THEN /\ call.node[1].id \in {n.id : n \in srvPassage}
               /\ srvPassage' = reorderNode(call.node[1].id, call.orderIndex)
               /\ CallFetches(e, k)
          ELSE /\ npage' = [npage EXCEPT ![e].isSubmitting = FALSE,
                                         ![e].draggedItem = <<>>,
                                         ![e].calls = DropCall(@, k)]
               /\ UNCHANGED srvPassage
    /\ UNCHANGED <<testVars, authVars, buildVars, editors, errorLog>>

\* The author edits and deletes the node of the first row, makes the node of
\* the second row the boss, and drags the second row onto one of the first two
NodesNext ==
    \/ \E e \in editors : MountNodesPage(e)
    \/ \E e \in editors, k \in 1..MaxCalls, ok \in BOOLEAN : fetchNodes(e, k, ok)
    \/ \E e \in editors : handleSetBoss(e, 2)
    \/ \E e \in editors, k \in 1..MaxCalls, ok \in BOOLEAN : UnsetOldBoss(e, k, ok)
    \/ \E e \in editors, k \in 1..MaxCalls, ok \in BOOLEAN : SetNewBoss(e, k, ok)
    \/ \E e \in editors : openCreateNode(e)
    \/ \E e \in editors : openEditNode(e, 1)
    \/ \E e \in editors : closeNodeDialog(e)
    \/ \E e \in editors : nodeSubmit(e)
    \/ \E e \in editors, k \in 1..MaxCalls, ok \in BOOLEAN : nodeCreated(e, k, ok)
    \/ \E e \in editors, k \in 1..MaxCalls, ok \in BOOLEAN : nodeSaved(e, k, ok)
    \/ \E e \in editors : openDeleteNode(e, 1)
    \/ \E e \in editors : closeDeleteNode(e)
    \/ \E e \in editors : handleDelete(e)
    \/ \E e \in editors, k \in 1..MaxCalls, ok \in BOOLEAN : nodeDeleted(e, k, ok)
    \/ \E e \in editors : handleDragStart(e, 2)
    \/ \E e \in editors : handleDragEnd(e)
    \/ \E e \in editors, dropIndex \in 0..1 : handleDrop(e, dropIndex)
    \/ \E e \in editors, k \in 1..MaxCalls, ok \in BOOLEAN : nodeReordered(e, k, ok)

----------------------------------------------------------------------------
(* Properties of the boss flag *)

\* C7: in every server state at most one node of the passage has is_boss = true,
\* whatever the interleaving of the update calls of the editor sessions.
C7_AtMostOneBoss == Cardinality(Bosses) <= 1

\* C8: when handleSetBoss found another boss in its list and its last update
\* succeeds, the passage has exactly one boss afterwards, the chosen node.
C8_SetBossLeavesOnlyNewBoss ==
    [][\A e \in editors : \A k \in CallsAt(e, "set") :
          (/\ npage[e].calls[k].currentBoss # <<>>
           /\ k \in DOMAIN npage'[e].calls
           /\ npage'[e].calls[k].at = "getNodes")
          => Bosses' = {npage[e].calls[k].node[1].id}]_vars

\* C9: when the update clearing the old boss has succeeded and the update
\* setting the new boss fails, the passage has no boss and the page is back at
\* isSubmitting = false; a set-boss that later succeeds from there leaves
\* exactly one boss.
C9_FailedSetLeavesNoBoss ==
    /\ [][\A e \in editors : \A k \in CallsAt(e, "set") :
             (/\ npage[e].calls[k].currentBoss # <<>>
              /\ npage'[e].calls = DropCall(npage[e].calls, k))
             => (Bosses' = {} /\ ~npage'[e].isSubmitting)]_vars
    /\ [][\A e \in editors : \A k \in CallsAt(e, "set") :
             (/\ errorLog # <<>>
              /\ errorLog[Len(errorLog)].is_boss
              /\ k \in DOMAIN npage'[e].calls
              /\ npage'[e].calls[k].at = "getNodes")
             => Cardinality(Bosses') = 1]_vars

----------------------------------------------------------------------------
(* Properties of the requests of NodesPage *)

\* The runs of session e that belong to a create, update, delete, reorder or
\* set-boss handler
Mutating(e) == {k \in DOMAIN npage[e].calls : npage[e].calls[k].op # "mount"}

\* C17: the list the page holds changes only to what the server returns, and a
\* failed create, update, delete or reorder call leaves the list as it was and
\* isSubmitting false.
C17_ListChangesOnlyOnRoundTrip ==
    /\ [][\A e \in editors :
             npage'[e].nodes # npage[e].nodes
             => npage'[e].nodes = SortByOrder(srvPassage)]_vars
    /\ [][\A e \in editors : \A k \in Mutating(e) :
             (/\ npage[e].calls[k].at # "getNodes"
              /\ npage'[e].calls = DropCall(npage[e].calls, k))
             => (npage'[e].nodes = npage[e].nodes /\ ~npage'[e].isSubmitting)]_vars

\* C19: in one session at most one create, update, delete, reorder or set-boss
\* handler is running at any time, and isSubmitting is true exactly while one
\* is running: it is false again once the handler has returned, whether its
\* request succeeded or failed.
C19_OneMutationInFlight ==
    \A e \in editors :
        /\ Cardinality(Mutating(e)) <= 1
        /\ npage[e].isSubmitting <=> Mutating(e) # {}

\* A reorder is in flight and the author has opened the delete dialog, whose
\* Delete button is disabled
C19_Witness ==
    \E e \in editors :
        /\ npage[e].deleteDialogOpen
        /\ npage[e].deletingNode # <<>>
        /\ npage[e].isSubmitting
        /\ \E k \in DOMAIN npage[e].calls : npage[e].calls[k].op = "handleDrop"

----------------------------------------------------------------------------
(* QuestionsPage: the batch-create dialog and the edit dialog *)

Subjects == {"english", "reading", "math", "science"}

\* What the author types into a text input
Typed == <<"a">>

\* sentence.split(' ')
RECURSIVE split(_)
split(s) ==
    IF \E i \in DOMAIN s : s[i] = " "
    THEN LET i == CHOOSE k \in DOMAIN s : s[k] = " " /\ \A j \in 1..(k - 1) : s[j] # " "
         IN <<SubSeq(s, 1, i - 1)>> \o split(SubSeq(s, i + 1, Len(s)))
    ELSE <<s>>

\* sentence.split(' ').filter(w => w.length > 0)
Words(s) == SelectSeq(split(s), LAMBDA w : w # <<>>)

\* FindErrorPreview, StrikeOutPreview: content.sentence.split(' ')
PreviewWords(content) == split(content.sentence)

\* FindErrorQuestion, StrikeOutQuestion: sentence.split(' ')
QuestionWords(content) == split(content.sentence)

\* The render of a type's form throws a TypeError when it dereferences a field
\* the content does not have.
FormThrows(type, value) ==
    CASE type = "multiple_choice" -> ~Has(value, "options")
      [] type = "find_error" -> ~Has(value, "sentence")
      [] type = "strike_out" ->
            \/ ~Has(value, "sentence")
            \/ Words(value.sentence) # <<>> /\ ~Has(value, "correct_ids_to_remove")
      [] type = "ordering" -> ~Has(value, "items") \/ ~Has(value, "correct_order")
      [] type = "swipe_decision" -> ~Has(value, "labels")
      [] type = "matching" -> ~Has(value, "pairs")
      [] OTHER -> FALSE

\* The values a form hands to onChange when the author fills its first input
\* (for trend_arrow: clicks a trend; for matching: fills the first pair)
FormEdits(type, value) ==
    CASE type = "multiple_choice" -> {Spread(value, "question", Typed)}
      [] type = "find_error" -> {Spread(value, "sentence", Typed)}
      [] type = "strike_out" ->
            {Spread(Spread(value, "sentence", Typed), "correct_ids_to_remove", <<>>)}
      [] type = "ordering" -> {Spread(value, "explanation", Typed)}
      [] type = "highlight" -> {Spread(value, "passage", Typed)}
      [] type = "swipe_decision" -> {Spread(value, "content", Typed)}
      [] type = "fill_gap" -> {Spread(value, "correct_answer", Typed)}
      [] type = "matching" ->
            IF value.pairs = <<>> THEN {}
            ELSE {Spread(value, "pairs",
                         [value.pairs EXCEPT ![1] = Spread(@, "left", Typed)])}
      [] type = "graph_point" -> {Spread(value, "graph_description", Typed)}
      [] type = "trend_arrow" ->
            {Spread(value, "correct_trend", t) : t \in {"increase", "decrease", "no_change"}}
      [] type = "slider_value" -> {Spread(value, "unit", Typed)}

createBatchItem ==
    [type |-> QUESTION_TYPES_BY_SUBJECT(subject)[1],
     content |-> getDefaultContent(QUESTION_TYPES_BY_SUBJECT(subject)[1]),
     isExpanded |-> TRUE]

Collapsed(items) == [i \in DOMAIN items |-> [items[i] EXCEPT !.isExpanded = FALSE]]

\* questionsApi.createQuestion: POST /questions/node/{nodeId}
createQuestion(data) ==
    Append(qsrv, [id |-> Len(qsrv) + 1, type |-> data.type, content |-> data.content])

\* questionsApi.updateQuestion: PATCH /questions/{id}
updateQuestion(id, data) ==
    [i \in DOMAIN qsrv |->
        IF qsrv[i].id = id
        THEN [qsrv[i] EXCEPT !.type = data.type, !.content = data.content]
        ELSE qsrv[i]]

\* aliased: the positions at which editContent.options holds the very option
\* object of the listed question that is being edited
NewQuestionsPage ==
    [pc |-> "mount", questions |-> <<>>, isLoading |-> TRUE, isSubmitting |-> FALSE,
     dialogOpen |-> FALSE, editingQuestion |-> <<>>,
     editType |-> QUESTION_TYPES_BY_SUBJECT(subject)[1], editContent |-> <<>>,
     batchQuestions |-> <<>>, op |-> "none", job |-> <<>>, aliased |-> {}]

\* The questions a node starts with were stored with their type's content
AuthorInit ==
    /\ subject \in Subjects
    /\ qsrv \in {<<>>} \cup
          {<<[id |-> 1, type |-> t, content |-> getDefaultContent(t)]>> :
              t \in Range(QUESTION_TYPES_BY_SUBJECT(subject))}
    /\ qpage = NewQuestionsPage

\* The author acts when no request of the page is in flight; with no error
\* boundary a throwing render unmounts the page
QInteractive ==
    /\ qpage.pc = "idle"
    /\ ~(/\ qpage.dialogOpen
         /\ IF qpage.editingQuestion # <<>>
            THEN FormThrows(qpage.editType, qpage.editContent)
            ELSE \E i \in DOMAIN qpage.batchQuestions :
                    /\ qpage.batchQuestions[i].isExpanded
                    /\ FormThrows(qpage.batchQuestions[i].type, qpage.batchQuestions[i].content))

\* useEffect(() => { if (nodeIdNum) fetchQuestions(); }, [nodeIdNum]) for the
\* node whose row opened the page
MountQuestionsPage ==
    /\ qpage.pc = "mount"
    /\ qpage' = [qpage EXCEPT !.pc = "loading", !.isLoading = TRUE]
    /\ UNCHANGED <<testVars, bossVars, buildVars, subject, qsrv>>

\* fetchQuestions once getQuestions has settled, followed by what the submit
\* handler that awaited it does next
fetchQuestions(ok) ==
    /\ qpage.pc \in {"loading", "refetch"}
    /\ LET loaded == [qpage EXCEPT !.questions = IF ok THEN qsrv ELSE <<>>,
                                   !.isLoading = FALSE, !.aliased = {},
                                   !.pc = "idle", !.op = "none"]
       IN qpage' = (
             CASE qpage.op = "create" ->
                     [loaded EXCEPT !.dialogOpen = FALSE, !.batchQuestions = <<>>,
                                    !.isSubmitting = FALSE]
               [] qpage.op = "update" ->
                     [loaded EXCEPT !.dialogOpen = FALSE, !.isSubmitting = FALSE]
               [] OTHER -> loaded)
    /\ UNCHANGED <<testVars, bossVars, buildVars, subject, qsrv>>

openCreateDialog ==
    /\ QInteractive
    /\ ~qpage.dialogOpen
    /\ qpage' = [qpage EXCEPT !.editingQuestion = <<>>,
                              !.batchQuestions = <<createBatchItem>>,
                              !.dialogOpen = TRUE]
    /\ UNCHANGED <<testVars, bossVars, buildVars, subject, qsrv>>

\* The pencil button of a row of the loaded list
openEditDialog(i) ==
    /\ QInteractive
    /\ ~qpage.dialogOpen
    /\ ~qpage.isLoading
    /\ i \in DOMAIN qpage.questions
    /\ qpage' = [qpage EXCEPT !.editingQuestion = <<qpage.questions[i]>>,
                              !.editType = qpage.questions[i].type,
                              !.editContent = qpage.questions[i].content,
                              !.aliased = IF Has(qpage.questions[i].content, "options")
                                          THEN DOMAIN qpage.questions[i].content.options
                                          ELSE {},
                              !.batchQuestions = <<>>,
                              !.dialogOpen = TRUE]
    /\ UNCHANGED <<testVars, bossVars, buildVars, subject, qsrv>>

\* Cancel, or the dialog's onOpenChange(false)
closeDialog ==
    /\ QInteractive
    /\ qpage.dialogOpen
    /\ qpage' = [qpage EXCEPT !.dialogOpen = FALSE]
    /\ UNCHANGED <<testVars, bossVars, buildVars, subject, qsrv>>

BatchShown == QInteractive /\ qpage.dialogOpen /\ qpage.editingQuestion = <<>>

EditShown == QInteractive /\ qpage.dialogOpen /\ qpage.editingQuestion # <<>>

addBatchQuestion ==
    /\ BatchShown
    /\ Len(qpage.batchQuestions) < MaxBatch
    /\ qpage' = [qpage EXCEPT
                    !.batchQuestions = Append(Collapsed(@), createBatchItem)]
    /\ UNCHANGED <<testVars, bossVars, buildVars, subject, qsrv>>

duplicateBatchQuestion(index) ==
    /\ BatchShown
    /\ index \in DOMAIN qpage.batchQuestions
    /\ Len(qpage.batchQuestions) < MaxBatch
    /\ LET prev == qpage.batchQuestions
           newItem == [type |-> prev[index].type, content |-> prev[index].content,
                       isExpanded |-> TRUE]
           collapsed == Collapsed(prev)
       IN qpage' = [qpage EXCEPT
                       !.batchQuestions =
                           SubSeq(collapsed, 1, index) \o <<newItem>>
                               \o SubSeq(collapsed, index + 1, Len(collapsed))]
    /\ UNCHANGED <<testVars, bossVars, buildVars, subject, qsrv>>

\* The Remove button is there when the batch has more than one item
removeBatchQuestion(index) ==
    /\ BatchShown
    /\ index \in DOMAIN qpage.batchQuestions
    /\ Len(qpage.batchQuestions) > 1
    /\ qpage' = [qpage EXCEPT
                    !.batchQuestions =
                        SubSeq(@, 1, index - 1) \o SubSeq(@, index + 1, Len(@))]
    /\ UNCHANGED <<testVars, bossVars, buildVars, subject, qsrv>>

toggleBatchExpanded(index) ==
    /\ BatchShown
    /\ index \in DOMAIN qpage.batchQuestions
    /\ qpage' = [qpage EXCEPT
                    !.batchQuestions =
                        [i \in DOMAIN @ |->
                            [@[i] EXCEPT !.isExpanded =
                                IF i = index THEN ~@ ELSE FALSE]]]
    /\ UNCHANGED <<testVars, bossVars, buildVars, subject, qsrv>>

\* updateBatchQuestion(index, { content }) from the form of an expanded item
BatchFormChange(index) ==
    /\ BatchShown
    /\ index \in DOMAIN qpage.batchQuestions
    /\ qpage.batchQuestions[index].isExpanded
    /\ \E content \in FormEdits(qpage.batchQuestions[index].type,
                                qpage.batchQuestions[index].content) :
          qpage' = [qpage EXCEPT !.batchQuestions[index].content = content]
    /\ UNCHANGED <<testVars, bossVars, buildVars, subject, qsrv>>

handleBatchTypeChange(index, type) ==
    /\ BatchShown
    /\ index \in DOMAIN qpage.batchQuestions
    /\ qpage.batchQuestions[index].isExpanded
    /\ type \in Range(QUESTION_TYPES_BY_SUBJECT(subject))
    /\ qpage' = [qpage EXCEPT !.batchQuestions[index].type = type,
                              !.batchQuestions[index].content = getDefaultContent(type)]
    /\ UNCHANGED <<testVars, bossVars, buildVars, subject, qsrv>>

\* setEditType(type); setEditTypeDropdownOpen(false)
handleEditTypeChange(type) ==
    /\ EditShown
    /\ type \in Range(QUESTION_TYPES_BY_SUBJECT(subject))
    /\ qpage' = [qpage EXCEPT !.editType = type]
    /\ UNCHANGED <<testVars, bossVars, buildVars, subject, qsrv>>

\* onChange={setEditContent} from the form of the edit dialog
EditFormChange ==
    /\ EditShown
    /\ \E content \in FormEdits(qpage.editType, qpage.editContent) :
          qpage' = [qpage EXCEPT !.editContent = content]
    /\ UNCHANGED <<testVars, bossVars, buildVars, subject, qsrv>>

\* updateOption(index, 'is_correct', true) of the MultipleChoiceForm of the edit
\* dialog: newOptions.forEach((opt, i) => { opt.is_correct = i === index })
\* writes to the option objects themselves, which the listed question and
\* editingQuestion hold too
editMarkCorrect(index) ==
    /\ EditShown
    /\ qpage.editType = "multiple_choice"
    /\ index + 1 \in DOMAIN qpage.editContent.options
    /\ LET value == qpage.editContent
           written(content) ==
               [content EXCEPT !.options =
                   [i \in DOMAIN @ |->
                       IF i \in qpage.aliased
                       THEN [@[i] EXCEPT !.is_correct = (i = index + 1)]
                       ELSE @[i]]]
           edited == qpage.editingQuestion[1]
       IN qpage' = [qpage EXCEPT
                       !.editContent =
                           Spread(value, "options",
                                  [i \in DOMAIN value.options |->
                                      [value.options[i] EXCEPT !.is_correct = (i = index + 1)]]),
                       !.editingQuestion = <<[edited EXCEPT !.content = written(@)]>>,
                       !.questions =
                           [i \in DOMAIN @ |->
                               IF @[i].id = edited.id
                               THEN [@[i] EXCEPT !.content = written(@)]
                               ELSE @[i]]]
    /\ UNCHANGED <<testVars, bossVars, buildVars, subject, qsrv>>

\* updateOption(index, 'text', val) of the same form: the option at index is
\* replaced by a copy
editOptionText(index) ==
    /\ EditShown
    /\ qpage.editType = "multiple_choice"
    /\ index + 1 \in DOMAIN qpage.editContent.options
    /\ qpage.editContent.options[index + 1].text # Typed
    /\ qpage' = [qpage EXCEPT
                    !.editContent.options[index + 1] = Spread(@, "text", Typed),
                    !.aliased = @ \ {index + 1}]
    /\ UNCHANGED <<testVars, bossVars, buildVars, subject, qsrv>>

\* handleBatchSubmit up to its first await; the button is disabled by
\* isSubmitting and by an empty batch
handleBatchSubmit ==
    /\ BatchShown
    /\ qpage.pc = "idle"
    /\ ~qpage.isSubmitting
    /\ qpage.batchQuestions # <<>>
    /\ qpage' = [qpage EXCEPT
                    !.isSubmitting = TRUE,
                    !.pc = "creating", !.op = "create",
                    !.job = [i \in DOMAIN qpage.batchQuestions |->
                                [type |-> qpage.batchQuestions[i].type,
                                 content |-> qpage.batchQuestions[i].content]]]
    /\ UNCHANGED <<testVars, bossVars, buildVars, subject, qsrv>>

\* One pass of the loop: await questionsApi.createQuestion(nodeIdNum, data);
\* after the last one fetchQuestions() starts, a rejection ends in catch/finally
CreateStep(ok) ==
    /\ qpage.pc = "creating"
    /\ IF ok
       THEN /\ Len(qsrv) < MaxStored
            /\ qsrv' = createQuestion(Head(qpage.job))
            /\ qpage' = (
                  IF Tail(qpage.job) = <<>>
                  THEN [qpage EXCEPT !.job = <<>>, !.pc = "refetch", !.isLoading = TRUE]
                  ELSE [qpage EXCEPT !.job = Tail(@)])
       ELSE /\ qpage' = ([qpage EXCEPT !.job = <<>>, !.pc = "idle", !.op = "none",
                                             !.isSubmitting = FALSE])
            /\ UNCHANGED qsrv
    /\ UNCHANGED <<testVars, bossVars, buildVars, subject>>

handleEditSubmit ==
    /\ EditShown
    /\ qpage.pc = "idle"
    /\ ~qpage.isSubmitting
    /\ qpage' = [qpage EXCEPT
                    !.isSubmitting = TRUE,
                    !.pc = "updating", !.op = "update",
                    !.job = <<[id |-> qpage.editingQuestion[1].id,
                               type |-> qpage.editType, content |-> qpage.editContent]>>]
    /\ UNCHANGED <<testVars, bossVars, buildVars, subject, qsrv>>

\* await questionsApi.updateQuestion(editingQuestion.id, data), then
\* fetchQuestions() starts
UpdateStep(ok) ==
    /\ qpage.pc = "updating"
    /\ IF ok
       THEN /\ qsrv' = updateQuestion(Head(qpage.job).id, Head(qpage.job))
            /\ qpage' = ([qpage EXCEPT !.job = <<>>, !.pc = "refetch",
                                             !.isLoading = TRUE])
       ELSE /\ qpage' = ([qpage EXCEPT !.job = <<>>, !.pc = "idle", !.op = "none",
                                             !.isSubmitting = FALSE])
            /\ UNCHANGED qsrv
    /\ UNCHANGED <<testVars, bossVars, buildVars, subject>>

\* A visit in which the author creates questions
BatchNext ==
    \/ MountQuestionsPage
    \/ \E ok \in BOOLEAN : fetchQuestions(ok)
    \/ openCreateDialog
    \/ closeDialog
    \/ addBatchQuestion
    \/ \E index \in 1..MaxBatch : duplicateBatchQuestion(index)
    \/ \E index \in 1..MaxBatch : removeBatchQuestion(index)
    \/ \E index \in 1..MaxBatch : toggleBatchExpanded(index)
    \/ \E index \in 1..MaxBatch : BatchFormChange(index)
    \/ \E index \in 1..MaxBatch, type \in QuestionTypes : handleBatchTypeChange(index, type)
    \/ handleBatchSubmit
    \/ \E ok \in BOOLEAN : CreateStep(ok)

\* A visit in which the author edits stored questions
EditNext ==
    \/ MountQuestionsPage
    \/ \E ok \in BOOLEAN : fetchQuestions(ok)
    \/ \E i \in 1..MaxStored : openEditDialog(i)
    \/ closeDialog
    \/ \E type \in QuestionTypes : handleEditTypeChange(type)
    \/ EditFormChange
    \/ handleEditSubmit
    \/ \E ok \in BOOLEAN : UpdateStep(ok)

\* A visit in which the author edits the options of a stored multiple_choice
\* question
OptionsNext ==
    \/ MountQuestionsPage
    \/ \E ok \in BOOLEAN : fetchQuestions(ok)
    \/ openEditDialog(1)
    \/ closeDialog
    \/ \E index \in 0..1 : editMarkCorrect(index)
    \/ \E index \in 0..1 : editOptionText(index)
    \/ handleEditSubmit
    \/ \E ok \in BOOLEAN : UpdateStep(ok)

\* A visit in which the author creates questions and every getQuestions
\* succeeds, so that the listed questions are what the server held when the
\* batch dialog opened
RetryNext ==
    \/ MountQuestionsPage
    \/ fetchQuestions(TRUE)
    \/ openCreateDialog
    \/ addBatchQuestion
    \/ \E index \in 1..MaxBatch, type \in QuestionTypes : handleBatchTypeChange(index, type)
    \/ handleBatchSubmit
    \/ \E ok \in BOOLEAN : CreateStep(ok)

----------------------------------------------------------------------------
(* Properties of the question dialogs *)

\* C10: a type change in the batch dialog or in the edit dialog replaces the
\* content by getDefaultContent of the new type, and every {type, content}
\* pair submitted by create or update, and so every stored question, has
\* exactly the field set of its type.
C10_TypeChangeInstallsDefault ==
    /\ [][(/\ qpage.dialogOpen /\ qpage'.dialogOpen
           /\ qpage.editingQuestion # <<>>
           /\ qpage'.editType # qpage.editType)
          => qpage'.editContent = getDefaultContent(qpage'.editType)]_vars
    /\ [][\A i \in DOMAIN qpage.batchQuestions :
             (/\ qpage.dialogOpen /\ qpage'.dialogOpen
              /\ Len(qpage'.batchQuestions) = Len(qpage.batchQuestions)
              /\ qpage'.batchQuestions[i].type # qpage.batchQuestions[i].type)
             => qpage'.batchQuestions[i].content
                    = getDefaultContent(qpage'.batchQuestions[i].type)]_vars
    /\ [](\A i \in DOMAIN qpage.job :
             DOMAIN qpage.job[i].content = ContentFields(qpage.job[i].type))
    /\ [](\A i \in DOMAIN qsrv :
             DOMAIN qsrv[i].content = ContentFields(qsrv[i].type))

----------------------------------------------------------------------------
(* Authoring forms: the operations of the form components of a question type.
   A form receives the content as value and hands the changed content to
   onChange; indices are JavaScript indices (from 0). *)

MaxOptions == 4
MaxItems == 3
MaxPairs == 3

\* String.fromCharCode(code) for the codes of capital letters
fromCharCode(code) ==
    <<"A", "B", "C", "D", "E", "F", "G", "H", "I", "J">>[code - 64]

\* String(n) for a one-digit n
String(n) == <<"0", "1", "2", "3", "4", "5", "6", "7", "8", "9">>[n + 1]

\* array.filter((_, i) => i !== index)
RemoveAt(s, index) == SubSeq(s, 1, index) \o SubSeq(s, index + 2, Len(s))

\* What the author types into a sentence input
Sentences ==
    {<<>>, <<"a", " ", "b">>, <<"a", " ", "b", " ", "c">>, <<"a", " ", " ", "b">>}

\* The form of the first item of the batch dialog, when it shows a type
FormOpen(type) ==
    /\ BatchShown
    /\ qpage.batchQuestions # <<>>
    /\ qpage.batchQuestions[1].isExpanded
    /\ qpage.batchQuestions[1].type = type

FormValue == qpage.batchQuestions[1].content

\* onChange of the form: updateBatchQuestion(index, { content })
FormChange(content) ==
    /\ qpage' = [qpage EXCEPT !.batchQuestions[1].content = content]
    /\ UNCHANGED <<testVars, bossVars, buildVars, subject, qsrv>>

\* MultipleChoiceForm
addOption ==
    /\ FormOpen("multiple_choice")
    /\ Len(FormValue.options) < MaxOptions
    /\ LET value == FormValue
           newId == fromCharCode(65 + Len(value.options))
       IN FormChange(Spread(value, "options",
                            Append(value.options, Option(newId))))

\* The remove button is rendered when there are more than 2 options
removeOption(index) ==
    /\ FormOpen("multiple_choice")
    /\ index + 1 \in DOMAIN FormValue.options
    /\ Len(FormValue.options) > 2
    /\ LET value == FormValue
       IN FormChange(Spread(value, "options", RemoveAt(value.options, index)))

\* An updateOption(index, 'is_correct', true) that leaves the other options as
\* they are
markCorrectKeepOthers(index) ==
    /\ FormOpen("multiple_choice")
    /\ index + 1 \in DOMAIN FormValue.options
    /\ LET value == FormValue
       IN FormChange(Spread(value, "options",
               [value.options EXCEPT ![index + 1] = Spread(@, "is_correct", TRUE)]))

\* updateOption(index, 'is_correct', true); the option objects are changed in
\* place
markCorrect(index) ==
    /\ FormOpen("multiple_choice")
    /\ index + 1 \in DOMAIN FormValue.options
    /\ LET value == FormValue
       IN FormChange(Spread(value, "options",
               [i \in DOMAIN value.options |->
                   [value.options[i] EXCEPT !.is_correct = (i = index + 1)]]))

\* updateOption(index, 'text', val)
updateOptionText(index) ==
    /\ FormOpen("multiple_choice")
    /\ index + 1 \in DOMAIN FormValue.options
    /\ FormValue.options[index + 1].text # Typed
    /\ LET value == FormValue
       IN FormChange(Spread(value, "options",
               [value.options EXCEPT ![index + 1] = Spread(@, "text", Typed)]))

\* OrderingForm
addItem ==
    /\ FormOpen("ordering")
    /\ Len(FormValue.items) < MaxItems
    /\ LET value == FormValue
           newId == fromCharCode(65 + Len(value.items))
       IN FormChange(Spread(Spread(value, "items",
                                   Append(value.items, Item(newId))),
                            "correct_order", Append(value.correct_order, newId)))

\* The remove button is rendered when there are more than 2 items
removeItem(index) ==
    /\ FormOpen("ordering")
    /\ index + 1 \in DOMAIN FormValue.items
    /\ Len(FormValue.items) > 2
    /\ LET value == FormValue
           removedId == value.items[index + 1].id
       IN FormChange(Spread(Spread(value, "items", RemoveAt(value.items, index)),
                            "correct_order",
                            SelectSeq(value.correct_order,
                                      LAMBDA id : id # removedId)))

\* The up button of the first entry and the down button of the last are
\* disabled
moveInOrder(fromIndex, direction) ==
    /\ FormOpen("ordering")
    /\ fromIndex + 1 \in DOMAIN FormValue.correct_order
    /\ direction = "up" => fromIndex # 0
    /\ direction = "down" => fromIndex # Len(FormValue.correct_order) - 1
    /\ LET value == FormValue
           newOrder == value.correct_order
           toIndex == IF direction = "up" THEN fromIndex - 1 ELSE fromIndex + 1
       IN FormChange(
              IF toIndex < 0 \/ toIndex >= Len(newOrder) THEN value
              ELSE Spread(value, "correct_order",
                          [newOrder EXCEPT ![fromIndex + 1] = newOrder[toIndex + 1],
                                           ![toIndex + 1] = newOrder[fromIndex + 1]]))

\* FindErrorForm: the sentence input
findErrorSentence(sentence) ==
    /\ FormOpen("find_error")
    /\ sentence # FormValue.sentence
    /\ FormChange(Spread(FormValue, "sentence", sentence))

\* The word buttons are rendered for the non-empty words of the sentence
findErrorSelect(index) ==
    /\ FormOpen("find_error")
    /\ index + 1 \in DOMAIN Words(FormValue.sentence)
    /\ FormChange(Spread(FormValue, "error_index", index))

\* StrikeOutForm: the sentence input
strikeOutSentence(sentence) ==
    /\ FormOpen("strike_out")
    /\ sentence # FormValue.sentence
    /\ FormChange(Spread(Spread(FormValue, "sentence", sentence),
                         "correct_ids_to_remove", <<>>))

toggleWord(index) ==
    /\ FormOpen("strike_out")
    /\ index + 1 \in DOMAIN Words(FormValue.sentence)
    /\ LET value == FormValue
           ids == value.correct_ids_to_remove
           newIds == IF index \in Range(ids)
                     THEN SelectSeq(ids, LAMBDA i : i # index)
                     ELSE Append(ids, index)
       IN FormChange(Spread(value, "correct_ids_to_remove", newIds))

\* MatchingForm
addPair ==
    /\ FormOpen("matching")
    /\ Len(FormValue.pairs) < MaxPairs
    /\ LET value == FormValue
           newId == String(Len(value.pairs) + 1)
       IN FormChange(Spread(value, "pairs", Append(value.pairs, Pair(newId))))

\* The remove button is rendered when there are more than 2 pairs
removePair(index) ==
    /\ FormOpen("matching")
    /\ index + 1 \in DOMAIN FormValue.pairs
    /\ Len(FormValue.pairs) > 2
    /\ LET value == FormValue
       IN FormChange(Spread(value, "pairs", RemoveAt(value.pairs, index)))

\* What the author types into a number input: unsigned integer literals, on
\* which parseFloat and parseInt agree
NumberInputs == {<<>>, <<"0">>, <<"3">>}

\* parseFloat(e.target.value) || fallback
NumberOr(input, fallback) ==
    IF Truthy(parseInt(input)) THEN parseInt(input) ELSE fallback

\* The values the other forms hand to onChange when the author edits a field
\* that the grading rule of the type reads
GradedEdits(type, value) ==
    CASE type = "highlight" -> {Spread(value, "correct_phrase", Typed)}
      [] type = "swipe_decision" ->
            {Spread(value, "correct_swipe", s) : s \in {"left", "right"}}
      [] type = "fill_gap" -> {Spread(value, "correct_answer", Typed)}
      [] type = "graph_point" ->
            {Spread(value, "target_x", NumberOr(i, 0)) : i \in NumberInputs}
              \cup {Spread(value, "radius", NumberOr(i, 10)) : i \in NumberInputs}
      [] type = "trend_arrow" ->
            {Spread(value, "correct_trend", t) : t \in {"increase", "decrease", "no_change"}}
      [] type = "slider_value" ->
            {Spread(value, "correct_value", NumberOr(i, 0)) : i \in NumberInputs}
              \cup {Spread(value, "tolerance", NumberOr(i, 1)) : i \in NumberInputs}
      [] OTHER -> {}

GradedFieldChange ==
    /\ BatchShown
    /\ qpage.batchQuestions # <<>>
    /\ qpage.batchQuestions[1].isExpanded
    /\ \E content \in GradedEdits(qpage.batchQuestions[1].type, FormValue) :
          /\ content # FormValue
          /\ FormChange(content)

\* The author opens the questions of a node that has none yet
FormsInit ==
    /\ subject \in Subjects
    /\ qsrv = <<>>
    /\ qpage = NewQuestionsPage

\* A visit in which the author fills the form of one new question
FormsNext ==
    \/ MountQuestionsPage
    \/ \E ok \in BOOLEAN : fetchQuestions(ok)
    \/ openCreateDialog
    \/ \E type \in QuestionTypes : handleBatchTypeChange(1, type)
    \/ addOption
    \/ \E index \in 0..MaxOptions : removeOption(index)
    \/ \E index \in 0..MaxOptions : markCorrect(index)
    \/ \E index \in 0..MaxOptions : updateOptionText(index)
    \/ addItem
    \/ \E index \in 0..MaxItems : removeItem(index)
    \/ \E index \in 0..MaxItems, direction \in {"up", "down"} :
          moveInOrder(index, direction)
    \/ \E sentence \in Sentences : findErrorSentence(sentence)
    \/ \E index \in 0..2 : findErrorSelect(index)
    \/ \E sentence \in Sentences : strikeOutSentence(sentence)
    \/ \E index \in 0..2 : toggleWord(index)
    \/ addPair
    \/ \E index \in 0..MaxPairs : removePair(index)
    \/ GradedFieldChange

----------------------------------------------------------------------------
(* Properties of the authoring forms *)

CorrectOptions(value) == {i \in DOMAIN value.options : value.options[i].is_correct}

\* C14: a multiple_choice content built from the registry default by adding,
\* removing, retyping and marking options has at least 2 options and at most
\* one correct option, and right after a step that makes an option correct
\* that option is the only correct one.
C14_SingleCorrectOption ==
    /\ [](FormOpen("multiple_choice") =>
             /\ Len(FormValue.options) >= 2
             /\ Cardinality(CorrectOptions(FormValue)) <= 1)
    /\ [][(/\ FormOpen("multiple_choice") /\ FormOpen("multiple_choice")'
           /\ Len(FormValue.options') = Len(FormValue.options))
          => \A i \in DOMAIN FormValue.options :
                (~FormValue.options[i].is_correct /\ FormValue.options'[i].is_correct)
                => CorrectOptions(FormValue') = {i}]_vars

\* An option added after a removal is marked correct in place of another
C14_Witness ==
    /\ FormOpen("multiple_choice")
    /\ Len(FormValue.options) = 3
    /\ FormValue.options[3].id = "C"
    /\ FormValue.options[3].is_correct
    /\ FormValue.options[1].text = Typed

ItemIds(value) == [i \in DOMAIN value.items |-> value.items[i].id]

\* The number of positions of a sequence that hold an element
Count(s, e) == Cardinality({i \in DOMAIN s : s[i] = e})

\* C15: an ordering content built from the registry default by adding and
\* removing items and moving entries of the order has a correct_order that
\* is a permutation of the ids of its items.
C15_CorrectOrderIsPermutation ==
    FormOpen("ordering") =>
        /\ Len(FormValue.correct_order) = Len(FormValue.items)
        /\ \A id \in Range(FormValue.correct_order) \cup Range(ItemIds(FormValue)) :
              Count(FormValue.correct_order, id) = Count(ItemIds(FormValue), id)

\* C16: in the find_error form and in the strike_out form a change of the
\* sentence resets the selected word indices: error_index goes back to its
\* initial value and correct_ids_to_remove becomes empty.
C16_SentenceChangeResetsSelection ==
    /\ [][(/\ FormOpen("find_error") /\ FormOpen("find_error")'
           /\ FormValue.sentence' # FormValue.sentence)
          => FormValue.error_index' = getDefaultContent("find_error").error_index]_vars
    /\ [][(/\ FormOpen("strike_out") /\ FormOpen("strike_out")'
           /\ FormValue.sentence' # FormValue.sentence)
          => FormValue.correct_ids_to_remove' = <<>>]_vars

\* C29: when a batch submit completes, after any number of submits of the open
\* batch that failed at some item, the server holds the questions it held
\* before followed by every batch item once, in list order
C29_RetryPersistsEachItemOnce ==
    [][(qpage.pc = "refetch" /\ qpage.op = "create" /\ qpage'.pc = "idle") =>
          LET data(items) == [i \in DOMAIN items |->
                                 [type |-> items[i].type, content |-> items[i].content]]
          IN data(qsrv) = data(qpage.questions) \o data(qpage.batchQuestions)]_vars

\* C28: the question list held by QuestionsPage changes only when a fetch
\* settles; opening the edit dialog, editing in it and closing it leave the
\* list as the last fetch returned it.
C28_ListChangesOnlyByFetch ==
    [][qpage'.questions # qpage.questions
       => qpage.pc \in {"loading", "refetch"}]_vars

----------------------------------------------------------------------------
(* Preview components and the answers a user can give *)

\* The text a user selects in a passage or types into an answer input
AnswerTexts == {<<"a">>, <<"b">>, <<"A", " ">>}

\* Math.round(... * 10) of a click inside the graph
Coordinates == {0, 3, 10}

PairIds(content) == {content.pairs[i].id : i \in DOMAIN content.pairs}

\* The answers the question component of a type lets the user give
Candidates(type, content) ==
    CASE type = "multiple_choice" ->
            {Str(content.options[i].id) : i \in DOMAIN content.options}
      [] type = "find_error" ->
            {Num(i - 1) : i \in DOMAIN split(content.sentence)}
      [] type = "strike_out" ->
            {[set |-> S] : S \in SUBSET {i - 1 : i \in DOMAIN split(content.sentence)}}
      [] type = "ordering" ->
            {Arr([i \in DOMAIN content.items |-> content.items[p[i]].id]) :
                p \in Perms(DOMAIN content.items)}
      [] type = "highlight" -> {Str(s) : s \in AnswerTexts}
      [] type = "swipe_decision" ->
            {Arr(<<s>>) : s \in {"left", "right"}}
      [] type = "fill_gap" -> {Str(s) : s \in AnswerTexts}
      [] type = "matching" ->
            \* one-to-one maps from some left ids to right ids: a matched
            \* button of either column is disabled
            LET ids == PairIds(content)
            IN {[map |-> m] : m \in UNION {{f \in [L -> ids] : \A a, b \in L : f[a] = f[b] => a = b} : L \in SUBSET ids} \ {<<>>}}
      [] type = "graph_point" ->
            {[pt |-> [x |-> x, y |-> y]] : x \in Coordinates, y \in Coordinates}
      [] type = "trend_arrow" ->
            {Str(t) : t \in {"increase", "decrease", "no_change"}}
      [] type = "slider_value" -> {Num(v) : v \in {0, 3, 50, 51, 100}}
      [] OTHER -> {}

\* A preview component throws when it dereferences a field the content does
\* not have
PreviewThrows(type, content) ==
    CASE type = "swipe_decision" -> ~Has(content, "cards")
      [] OTHER -> FALSE

\* MatchingPreview.checkCorrect: the recorded
\* mappings whose right id is the id of the pair found for the left id
previewCheckCorrect(content, matches) ==
    Cardinality({leftId \in DOMAIN matches :
                    /\ leftId \in PairIds(content)
                    /\ leftId = matches[leftId]})

\* isCorrect / isAllCorrect of the preview component of a type
PreviewVerdict(type, content, answer) ==
    CASE type = "multiple_choice" ->
            LET selected ==
                    Find(content.options,
                         {i \in DOMAIN content.options : Str(content.options[i].id) = answer})
            IN selected # <<>> /\ selected[1].is_correct
      [] type = "find_error" -> answer = Num(content.error_index)
      [] type = "strike_out" ->
            LET correctSet == Range(content.correct_ids_to_remove)
            IN /\ Cardinality(answer.set) = Cardinality(correctSet)
               /\ \A id \in answer.set : id \in correctSet
      [] type = "ordering" ->
            \A index \in DOMAIN answer.arr :
                /\ index \in DOMAIN content.correct_order
                /\ answer.arr[index] = content.correct_order[index]
      [] type = "highlight" ->
            \/ includes(toLowerCase(answer.str), toLowerCase(content.correct_phrase))
            \/ includes(toLowerCase(content.correct_phrase), toLowerCase(answer.str))
      [] type = "swipe_decision" ->
            Cardinality({i \in DOMAIN content.cards :
                            /\ i \in DOMAIN answer.arr
                            /\ answer.arr[i] = content.cards[i].correct_swipe})
                = Len(content.cards)
      [] type = "fill_gap" ->
            trim(toLowerCase(answer.str)) = trim(toLowerCase(content.correct_answer))
      [] type = "matching" ->
            previewCheckCorrect(content, answer.map) = Len(content.pairs)
      [] type = "graph_point" ->
            LET dx == answer.pt.x - content.target_x
                dy == answer.pt.y - content.target_y
            IN /\ content.radius >= 0
               /\ dx * dx + dy * dy <= content.radius * content.radius
      [] type = "trend_arrow" -> answer = Str(content.correct_trend)
      [] type = "slider_value" ->
            Abs(answer.num - content.correct_value) <= content.tolerance
      [] OTHER -> FALSE

\* The answer a content designates as correct, as a nullable
Designated(type, content) ==
    CASE type = "multiple_choice" ->
            LET correct == Find(content.options, CorrectOptions(content))
            IN IF correct = <<>> THEN <<>> ELSE <<Str(correct[1].id)>>
      [] type = "find_error" -> <<Num(content.error_index)>>
      [] type = "strike_out" -> <<[set |-> Range(content.correct_ids_to_remove)]>>
      [] type = "ordering" -> <<Arr(content.correct_order)>>
      [] type = "highlight" -> <<Str(content.correct_phrase)>>
      [] type = "swipe_decision" -> <<Arr(<<content.correct_swipe>>)>>
      [] type = "fill_gap" -> <<Str(content.correct_answer)>>
      [] type = "matching" -> <<[map |-> [id \in PairIds(content) |-> id]]>>
      [] type = "graph_point" ->
            <<[pt |-> [x |-> content.target_x, y |-> content.target_y]]>>
      [] type = "trend_arrow" -> <<Str(content.correct_trend)>>
      [] type = "slider_value" -> <<Num(content.correct_value)>>
      [] OTHER -> <<>>

\* The question the form of the first batch item would store
FormQuestion ==
    [id |-> 0, type |-> qpage.batchQuestions[1].type, content |-> FormValue]

\* C12: for the content of any authoring form and any answer the user can
\* give, the preview component and checkAnswer of test mode either both
\* throw or report the same verdict.
C12_PreviewAgreesWithCheckAnswer ==
    \A type \in QuestionTypes :
        FormOpen(type) =>
            \A answer \in Candidates(type, FormValue) :
                /\ PreviewThrows(type, FormValue) <=> checkAnswerThrows(FormQuestion, answer)
                /\ ~PreviewThrows(type, FormValue) =>
                      (PreviewVerdict(type, FormValue, answer)
                          <=> checkAnswer(FormQuestion, answer))

\* C13: for the content of any authoring form, checkAnswer does not throw on
\* the answers the user can give or on the designated answer, accepts the
\* designated answer, and rejects some answer the user can give.
C13_CheckAnswerSeparatesAnswers ==
    \A type \in QuestionTypes :
        FormOpen(type) =>
            LET designated == Designated(type, FormValue)
            IN /\ \A answer \in Candidates(type, FormValue) \cup Range(designated) :
                     ~checkAnswerThrows(FormQuestion, answer)
               /\ designated # <<>> => checkAnswer(FormQuestion, designated[1])
               /\ \E answer \in Candidates(type, FormValue) :
                     /\ <<answer>> # designated
                     /\ ~checkAnswer(FormQuestion, answer)

\* C21: for an ordering question checkAnswer accepts an answer sequence
\* exactly when it has the length of correct_order and the same id at every
\* position, and rejects correct_order with any two distinct ids swapped.
C21_OrderingGradeIsElementwise ==
    FormOpen("ordering") =>
        LET correctOrder == FormValue.correct_order
            ids == Range(ItemIds(FormValue)) \cup Range(correctOrder)
        IN /\ \A n \in 0..MaxItems : \A answerOrder \in [1..n -> ids] :
                 checkAnswer(FormQuestion, Arr(answerOrder))
                    <=> /\ Len(answerOrder) = Len(correctOrder)
                        /\ \A i \in DOMAIN answerOrder :
                              answerOrder[i] = correctOrder[i]
           /\ \A i, j \in DOMAIN correctOrder :
                 correctOrder[i] # correctOrder[j]
                 => ~checkAnswer(FormQuestion,
                                 Arr([correctOrder EXCEPT ![i] = correctOrder[j],
                                                          ![j] = correctOrder[i]]))

C21_Witness ==
    /\ FormOpen("ordering")
    /\ Len(FormValue.correct_order) = MaxItems
    /\ Cardinality(Range(FormValue.correct_order)) = MaxItems
    /\ FormValue.correct_order # ItemIds(FormValue)
    /\ checkAnswer(FormQuestion, Arr(FormValue.correct_order))

\* C22: a slider_value answer is graded correct exactly when it is at most
\* tolerance away from correct_value, and a graph_point answer exactly when its
\* distance to the target is at most radius, the boundary included; with
\* correct_value 50 and tolerance 5 the answers 45 and 55 are correct and 44
\* and 56 are not.
C22_BandsIncludeBoundary ==
    (Screen = "InProgress" /\ showFeedback) =>
        LET content == currentQuestion.content
        IN /\ currentQuestion.type = "slider_value" =>
                 /\ isCurrentCorrect
                       <=> /\ currentAnswer.num - content.correct_value <= content.tolerance
                           /\ content.correct_value - currentAnswer.num <= content.tolerance
                 /\ (content.correct_value = 50 /\ content.tolerance = 5) =>
                       /\ currentAnswer.num \in {45, 55} => isCurrentCorrect
                       /\ currentAnswer.num \in {44, 56} => ~isCurrentCorrect
           /\ currentQuestion.type = "graph_point" =>
                 LET dx == currentAnswer.pt.x - content.target_x
                     dy == currentAnswer.pt.y - content.target_y
                 IN isCurrentCorrect
                       <=> /\ content.radius >= 0
                           /\ dx * dx + dy * dy <= content.radius * content.radius

C22_Witness ==
    /\ Screen = "InProgress"
    /\ showFeedback
    /\ currentQuestion.type = "slider_value"
    /\ currentQuestion.content.correct_value = 50
    /\ currentQuestion.content.tolerance = 5
    /\ currentAnswer = Num(55)
    /\ isCurrentCorrect

\* C23: a question whose type is none of the known types is never graded as
\* an ordinary answer: grading it raises an error, and results never holds an
\* entry for it.
C23_UnknownTypeSignalsError ==
    /\ (Screen = "InProgress" /\ currentQuestion.type \notin QuestionTypes
                              /\ currentAnswer # Null)
           => checkAnswerThrows(currentQuestion, currentAnswer)
    /\ \A i \in DOMAIN results : \A j \in DOMAIN questions :
           results[i].questionId = questions[j].id
           => questions[j].type \in QuestionTypes

\* C24: while a question is shown without feedback and without an answer,
\* some interaction or mount effect is enabled that gives the answer or
\* changes the question component on the way to one; a state where none is
\* enabled is a session that can never reach Complete.
C24_AnAnswerCanAlwaysBeGiven ==
    (Screen = "InProgress" /\ ~showFeedback /\ currentAnswer = Null)
        => ENABLED (LocalStateNext /\ (currentAnswer' # Null \/ child' # child))

\* C25: every entry of results carries the grade checkAnswer gives its answer,
\* and while feedback is shown the current answer does not change.
C25_ResultsCarryTheGradeOfTheirAnswer ==
    /\ [](\A i \in DOMAIN results :
             /\ ~checkAnswerThrows(questions[i], results[i].userAnswer)
             /\ results[i].isCorrect
                   = checkAnswer(questions[i], results[i].userAnswer))
    /\ [][(showFeedback /\ showFeedback') => currentAnswer' = currentAnswer]_vars

\* C26: results holds one entry per question already advanced past, in
\* question order: while a question is shown its length is currentIndex, on the
\* Complete screen it is the number of questions, and before the first
\* advance of a run (also after a restart) it is empty.
C26_OneResultPerQuestionPassed ==
    /\ \A i \in DOMAIN results :
           /\ i \in DOMAIN questions
           /\ results[i].questionId = questions[i].id
    /\ Screen = "InProgress" => Len(results) = currentIndex
    /\ Screen = "Complete" => Len(results) = Len(questions)
    /\ Screen \in {"Loading", "Empty"} => results = <<>>

C26_Witness ==
    /\ Screen = "Complete"
    /\ Len(questions) >= 2
    /\ Len(results) = Len(questions)
    /\ \A i \in DOMAIN results : results[i].questionId = questions[i].id

\* C27: in the authoring forms the ids of the options of a multiple_choice
\* content, of the items of an ordering content and of the pairs of a matching
\* content are pairwise distinct.
C27_ElementIdsAreDistinct ==
    /\ FormOpen("multiple_choice") =>
           \A i, j \in DOMAIN FormValue.options :
               FormValue.options[i].id = FormValue.options[j].id => i = j
    /\ FormOpen("ordering") =>
           \A i, j \in DOMAIN FormValue.items :
               FormValue.items[i].id = FormValue.items[j].id => i = j
    /\ FormOpen("matching") =>
           \A i, j \in DOMAIN FormValue.pairs :
               FormValue.pairs[i].id = FormValue.pairs[j].id => i = j

\* C30: in the find_error form and in the strike_out form every word the
\* content designates (error_index, correct_ids_to_remove) among the words of
\* the form is the word that the preview and the test-mode question show at
\* that index
C30_DesignatedWordsAreTheSameAtRuntime ==
    LET same(value, index) ==
            index + 1 \in DOMAIN Words(value.sentence) =>
                /\ index + 1 \in DOMAIN PreviewWords(value)
                /\ PreviewWords(value)[index + 1] = Words(value.sentence)[index + 1]
                /\ index + 1 \in DOMAIN QuestionWords(value)
                /\ QuestionWords(value)[index + 1] = Words(value.sentence)[index + 1]
    IN /\ FormOpen("find_error") => same(FormValue, FormValue.error_index)
       /\ FormOpen("strike_out") =>
             \A index \in Range(FormValue.correct_ids_to_remove) : same(FormValue, index)

----------------------------------------------------------------------------
(* VillagesPage: the villages of the selected subject.  An async handler that
   has started and not yet returned is a call of the page: its name and the
   await it is suspended at. *)

MaxCreated == 3

NewVillagesPage ==
    [pc |-> "mount", villages |-> <<>>, isLoading |-> TRUE, isSubmitting |-> FALSE,
     dialogOpen |-> FALSE, editingVillage |-> <<>>, cost |-> 0,
     deleteDialogOpen |-> FALSE, deletingVillage |-> <<>>, calls |-> <<>>]

\* The first village of a subject was stored with cost 0, a later one with
\* a cost
VillagesInit ==
    /\ vsrv \in {[villages |-> <<>>, created |-> 0],
                 [villages |-> <<[id |-> 1, cost |-> 0]>>, created |-> 1]}
    /\ vpage = NewVillagesPage

\* A render with a dialog open lets the author reach that dialog only
NoDialog == ~vpage.dialogOpen /\ ~vpage.deleteDialogOpen

\* useEffect(() => { fetchVillages(); }, [selectedSubject])
MountVillagesPage ==
    /\ vpage.pc = "mount"
    /\ vpage' = [vpage EXCEPT !.pc = "live", !.isLoading = TRUE,
                              !.calls = Append(@, [op |-> "mount", at |-> "getVillages"])]
    /\ UNCHANGED <<testVars, bossVars, authVars, vsrv>>

\* fetchVillages once getVillages has settled, followed by what the handler
\* that awaited it does next
fetchVillages(k, ok) ==
    /\ k \in DOMAIN vpage.calls
    /\ vpage.calls[k].at = "getVillages"
    /\ LET loaded == [vpage EXCEPT !.villages = IF ok THEN vsrv.villages ELSE @,
                                   !.isLoading = FALSE,
                                   !.calls = RemoveAt(@, k - 1)]
       IN vpage' = (
             CASE vpage.calls[k].op = "submit" ->
                     [loaded EXCEPT !.dialogOpen = FALSE, !.isSubmitting = FALSE]
               [] vpage.calls[k].op = "delete" ->
                     [loaded EXCEPT !.deleteDialogOpen = FALSE,
                                    !.deletingVillage = <<>>,
                                    !.isSubmitting = FALSE]
               [] OTHER -> loaded)
    /\ UNCHANGED <<testVars, bossVars, authVars, vsrv>>

isFirstVillage ==
    IF vpage.editingVillage # <<>>
    THEN ~Truthy(vpage.editingVillage[1].cost)
    ELSE Len(vpage.villages) = 0

\* The Add Village button of the header
openCreateVillage ==
    /\ vpage.pc = "live"
    /\ NoDialog
    /\ vpage' = [vpage EXCEPT !.editingVillage = <<>>, !.cost = 0, !.dialogOpen = TRUE]
    /\ UNCHANGED <<testVars, bossVars, authVars, vsrv>>

\* The pencil button of a row of the list
openEditVillage(i) ==
    /\ vpage.pc = "live"
    /\ NoDialog
    /\ ~vpage.isLoading
    /\ i \in DOMAIN vpage.villages
    /\ vpage' = [vpage EXCEPT !.editingVillage = <<vpage.villages[i]>>,
                              !.cost = vpage.villages[i].cost,
                              !.dialogOpen = TRUE]
    /\ UNCHANGED <<testVars, bossVars, authVars, vsrv>>

\* The cost input is rendered when the form does not treat the village as
\* the first one
EnterCost(c) ==
    /\ vpage.dialogOpen
    /\ ~isFirstVillage
    /\ c # vpage.cost
    /\ vpage' = [vpage EXCEPT !.cost = c]
    /\ UNCHANGED <<testVars, bossVars, authVars, vsrv>>

\* Cancel, or the dialog's onOpenChange(false), of either dialog
closeVillageDialog ==
    /\ vpage.pc = "live"
    /\ ~NoDialog
    /\ vpage' = [vpage EXCEPT !.dialogOpen = FALSE, !.deleteDialogOpen = FALSE]
    /\ UNCHANGED <<testVars, bossVars, authVars, vsrv>>

\* handleSubmit up to its first await; the submit button is disabled by
\* isSubmitting.  An edit that changes nothing calls fetchVillages at once.
villageSubmit ==
    /\ vpage.dialogOpen
    /\ ~vpage.isSubmitting
    /\ Len(vpage.calls) < MaxCalls
    /\ LET cost == IF isFirstVillage THEN 0 ELSE vpage.cost
           call ==
               IF vpage.editingVillage = <<>>
               THEN [op |-> "submit", at |-> "createVillage", cost |-> cost]
               ELSE IF cost # vpage.editingVillage[1].cost
               THEN [op |-> "submit", at |-> "updateVillage",
                     id |-> vpage.editingVillage[1].id, cost |-> cost]
               ELSE [op |-> "submit", at |-> "getVillages"]
       IN vpage' = [vpage EXCEPT !.isSubmitting = TRUE,
                                 !.isLoading = IF call.at = "getVillages" THEN TRUE ELSE @,
                                 !.calls = Append(@, call)]
    /\ UNCHANGED <<testVars, bossVars, authVars, vsrv>>

\* catch (error) { console.error(...) } finally { setIsSubmitting(false) }
VillageRequestFailed(k) ==
    /\ vpage' = [vpage EXCEPT !.isSubmitting = FALSE, !.calls = RemoveAt(@, k - 1)]
    /\ UNCHANGED vsrv

VillageRequestDone(k) ==
    vpage' = [vpage EXCEPT !.isLoading = TRUE, !.calls[k] = [op |-> @.op, at |-> "getVillages"]]

\* await buildingsApi.createVillage(createData), then fetchVillages() starts
createVillage(k, ok) ==
    /\ k \in DOMAIN vpage.calls
    /\ vpage.calls[k].at = "createVillage"
    /\ IF ok /\ vsrv.created < MaxCreated
       THEN /\ vsrv' = [villages |-> Append(vsrv.villages,
                                            [id |-> vsrv.created + 1,
                                             cost |-> vpage.calls[k].cost]),
                        created |-> vsrv.created + 1]
            /\ VillageRequestDone(k)
       ELSE VillageRequestFailed(k)
    /\ UNCHANGED <<testVars, bossVars, authVars>>

\* await buildingsApi.updateVillage(editingVillage.id, updateData), then
\* fetchVillages() starts
updateVillage(k, ok) ==
    /\ k \in DOMAIN vpage.calls
    /\ vpage.calls[k].at = "updateVillage"
    /\ IF ok /\ \E i \in DOMAIN vsrv.villages : vsrv.villages[i].id = vpage.calls[k].id
       THEN /\ vsrv' = [vsrv EXCEPT !.villages =
                           [i \in DOMAIN @ |->
                               IF @[i].id = vpage.calls[k].id
                               THEN [@[i] EXCEPT !.cost = vpage.calls[k].cost]
                               ELSE @[i]]]
            /\ VillageRequestDone(k)
       ELSE VillageRequestFailed(k)
    /\ UNCHANGED <<testVars, bossVars, authVars>>

\* The trash button of a row of the list
openDeleteVillage(i) ==
    /\ vpage.pc = "live"
    /\ NoDialog
    /\ ~vpage.isLoading
    /\ i \in DOMAIN vpage.villages
    /\ vpage' = [vpage EXCEPT !.deletingVillage = <<vpage.villages[i]>>,
                              !.deleteDialogOpen = TRUE]
    /\ UNCHANGED <<testVars, bossVars, authVars, vsrv>>

\* handleDelete up to its first await; the Delete button is disabled by
\* isSubmitting
villageDelete ==
    /\ vpage.deleteDialogOpen
    /\ ~vpage.isSubmitting
    /\ vpage.deletingVillage # <<>>
    /\ Len(vpage.calls) < MaxCalls
    /\ vpage' = [vpage EXCEPT
                    !.isSubmitting = TRUE,
                    !.calls = Append(@, [op |-> "delete", at |-> "deleteBuilding",
                                         id |-> vpage.deletingVillage[1].id])]
    /\ UNCHANGED <<testVars, bossVars, authVars, vsrv>>

\* await buildingsApi.deleteBuilding(deletingVillage.id), then
\* fetchVillages() starts
deleteBuilding(k, ok) ==
    /\ k \in DOMAIN vpage.calls
    /\ vpage.calls[k].at = "deleteBuilding"
    /\ IF ok /\ \E i \in DOMAIN vsrv.villages : vsrv.villages[i].id = vpage.calls[k].id
       THEN /\ vsrv' = [vsrv EXCEPT !.villages =
                           SelectSeq(@, LAMBDA v : v.id # vpage.calls[k].id)]
            /\ VillageRequestDone(k)
       ELSE VillageRequestFailed(k)
    /\ UNCHANGED <<testVars, bossVars, authVars>>

VillagesNext ==
    \/ MountVillagesPage
    \/ \E k \in 1..MaxCalls, ok \in BOOLEAN : fetchVillages(k, ok)
    \/ openCreateVillage
    \/ \E i \in 1..MaxCreated : openEditVillage(i)
    \/ \E c \in {0, 5} : EnterCost(c)
    \/ closeVillageDialog
    \/ villageSubmit
    \/ \E k \in 1..MaxCalls, ok \in BOOLEAN : createVillage(k, ok)
    \/ \E k \in 1..MaxCalls, ok \in BOOLEAN : updateVillage(k, ok)
    \/ \E i \in 1..MaxCreated : openDeleteVillage(i)
    \/ villageDelete
    \/ \E k \in 1..MaxCalls, ok \in BOOLEAN : deleteBuilding(k, ok)

\* C18: whenever the page shows the stored villages of the subject and there
\* is at least one, the form treats exactly one of them as the first village
\* (which fixes its cost to 0 and hides its cost input) and lets the cost of
\* every other one be entered.
C18_ExactlyOneFirstBuilding ==
    (/\ vpage.pc = "live"
     /\ vpage.calls = <<>>
     /\ vpage.villages = vsrv.villages
     /\ vpage.villages # <<>>)
    => Cardinality({i \in DOMAIN vpage.villages : ~Truthy(vpage.villages[i].cost)}) = 1

----------------------------------------------------------------------------
(* Specifications *)

\* The pages that are not open hold no state
NoNodesPage ==
    /\ editors = {}
    /\ srvPassage = {}
    /\ npage = <<>>
    /\ errorLog = <<>>

NoQuestionsPage ==
    /\ subject = "english"
    /\ qsrv = <<>>
    /\ qpage = <<>>

NoVillagesPage ==
    /\ vsrv = <<>>
    /\ vpage = <<>>

NoTestPage ==
    /\ route = [nodeId |-> <<>>, bossId |-> <<>>]
    /\ srvQuestions = <<>>
    /\ srvNode = [id |-> 0, passage_id |-> 0, pass_score |-> 0]
    /\ tpc = "closed"
    /\ node = <<>>
    /\ questions = <<>>
    /\ isLoading = TRUE
    /\ currentIndex = 0
    /\ results = <<>>
    /\ isComplete = FALSE
    /\ currentAnswer = Null
    /\ showFeedback = FALSE
    /\ isCurrentCorrect = FALSE
    /\ child = NoChild
    /\ timers = <<>>

\* One administrator runs a test session
SpecTestInit == TestInit /\ NoNodesPage /\ NoQuestionsPage /\ NoVillagesPage

SpecTest == SpecTestInit /\ [][TestNext]_vars

\* One administrator answers a slider_value or a graph_point question
SpecBandsInit ==
    /\ TestInitFrom({<<[type |-> "slider_value",
                        content |-> [getDefaultContent("slider_value") EXCEPT
                                        !.min_value = 0, !.max_value = 100,
                                        !.correct_value = c, !.tolerance = t]]>> :
                        c \in {50}, t \in {0, 5}}
                    \cup
                    {<<[type |-> "graph_point",
                        content |-> [getDefaultContent("graph_point") EXCEPT
                                        !.target_x = 5, !.target_y = 5,
                                        !.radius = r]]>> : r \in {0, 5}})
    /\ route = [nodeId |-> <<"1">>, bossId |-> <<>>]
    /\ srvNode.passage_id = 1
    /\ srvNode.pass_score = 70
    /\ NoNodesPage /\ NoQuestionsPage /\ NoVillagesPage

SpecBands == SpecBandsInit /\ [][BandsNext]_vars

\* One administrator answers a swipe_decision question followed by a question
\* of another, of the same or of an unknown type
SpecSwipeInit ==
    /\ LET swipe == [type |-> "swipe_decision",
                     content |-> [cards |-> <<[content |-> <<"a">>, correct_swipe |-> "left",
                                               explanation |-> <<>>],
                                              [content |-> <<"b">>, correct_swipe |-> "right",
                                               explanation |-> <<>>]>>,
                                  labels |-> [left |-> <<"a">>, right |-> <<"b">>]]]
           choice == [type |-> "multiple_choice",
                      content |-> [getDefaultContent("multiple_choice") EXCEPT
                                      !.options[2].is_correct = TRUE]]
           essay == [type |-> "essay", content |-> [question |-> <<"a">>]]
       IN TestInitFrom({<<swipe>>, <<swipe, choice>>, <<swipe, swipe>>, <<swipe, essay>>})
    /\ route = [nodeId |-> <<"1">>, bossId |-> <<>>]
    /\ srvNode.passage_id = 1
    /\ srvNode.pass_score = 70
    /\ NoNodesPage /\ NoQuestionsPage /\ NoVillagesPage

SpecSwipe == SpecSwipeInit /\ [][SwipeNext]_vars

\* One administrator runs a test session over ordering and matching questions
SpecTestLocalInit ==
    LocalStateInit /\ NoNodesPage /\ NoQuestionsPage /\ NoVillagesPage

SpecTestLocal == SpecTestLocalInit /\ [][LocalStateNext]_vars

\* The grading of matching answers
SpecGradeInit == GradeInit /\ NoNodesPage /\ NoQuestionsPage /\ NoVillagesPage

SpecGrade == SpecGradeInit /\ [][GradeNext]_vars

\* Two editor sessions set the boss of the same passage
SpecBossPairInit ==
    editors = {1, 2} /\ BossInit /\ NoTestPage /\ NoQuestionsPage /\ NoVillagesPage

SpecBossPair == SpecBossPairInit /\ [][BossNext]_vars

\* One editor session uses every handler of NodesPage
SpecNodesInit ==
    editors = {1} /\ NodesInit /\ NoTestPage /\ NoQuestionsPage /\ NoVillagesPage

SpecNodes == SpecNodesInit /\ [][NodesNext]_vars

\* One author works on the questions of a node
SpecAuthorInit == AuthorInit /\ NoTestPage /\ NoNodesPage /\ NoVillagesPage

\* The batch dialog of one subject over a node without stored questions
SpecAuthorBatchInit == SpecAuthorInit /\ subject = "reading" /\ qsrv = <<>>

SpecAuthorBatch == SpecAuthorBatchInit /\ [][BatchNext]_vars

SpecAuthorEdit == SpecAuthorInit /\ [][EditNext]_vars

\* One author edits the options of a stored multiple_choice question
SpecAuthorRetryInit == SpecAuthorInit

SpecAuthorRetry == SpecAuthorRetryInit /\ [][RetryNext]_vars

SpecAuthorOptionsInit ==
    /\ SpecAuthorInit
    /\ qsrv # <<>>
    /\ qsrv[1].type = "multiple_choice"

SpecAuthorOptions == SpecAuthorOptionsInit /\ [][OptionsNext]_vars

\* One author fills in the form of a new question
SpecFormsInit == FormsInit /\ NoTestPage /\ NoNodesPage /\ NoVillagesPage

SpecForms == SpecFormsInit /\ [][FormsNext]_vars

\* One author works on the villages of a subject
SpecVillagesInit ==
    VillagesInit /\ NoTestPage /\ NoNodesPage /\ NoQuestionsPage

SpecVillages == SpecVillagesInit /\ [][VillagesNext]_vars

====
